---- MODULE Spec2Model ----
(***************************************************************************)
(* Task execution control loop of the AI code agent                        *)
(* (src/src/agent_core.py, AICodeAgent.execute) together with the task     *)
(* state it drives (src/src/task_state.py, TaskState / TaskPlan).          *)
(*                                                                         *)
(* A run of execute() is modelled step by step: planning, the head of the  *)
(* while loop up to the call of the Decider, the answer of the Decider     *)
(* with everything that is done with it up to the end of the iteration,    *)
(* the final verification and the report.  The filesystem is a map from    *)
(* paths to "missing" / "empty" / "content"; it changes while a tool runs  *)
(* and may change between any two steps.                                   *)
(***************************************************************************)
EXTENDS Integers, Sequences, FiniteSets, TLC

\* ---------------------------------------------------------------- bounds
MaxTasks == 2
MaxIter == 5
MinIter == 2
UnitTasks == 2
MaxCalls == 2

\* ------------------------------------------------------ program constants
MaxRetries == 3
MaxConsecutiveErrors == 4

\* None for Optional[int] fields (iterations are counted from 1).
NoneInt == 0
\* None for Optional[str] fields.
NoneStr == "None"

Paths == {"a.txt", "b.txt"}
FileStates == {"missing", "empty", "content"}
FsStates == [Paths -> FileStates]

\* files_expected lists a task may carry (the planner copies the list of the
\* planning response unchecked, so a path may be named twice).
ExpectedChoices ==
    { << >>, <<"a.txt">>, <<"a.txt", "b.txt">>, <<"a.txt", "a.txt">> }

\* files_expected lists of the plans of a run: the task of a one-task plan
\* may expect two files, the tasks of a longer plan at most one.
RunExpected(n) ==
    IF n = 1 THEN { << >>, <<"a.txt">>, <<"a.txt", "b.txt">> }
    ELSE { << >>, <<"a.txt">> }

\* Tool names the Decider may name: one registered, one not.
RegisteredTools == {"write_file"}
ToolNames == {"write_file", "no_such_tool"}
\* Tool names the Decider names in a run.
RunToolNames == {"write_file"}

\* result.data of a tool: a dict, here a function on a subset of the keys the
\* updater looks at (<< >> is None or the empty dict).
DataChoices ==
    { << >>,
      [files_created |-> << >>],
      [files_created |-> <<"a.txt">>],
      [files_created |-> <<"a.txt", "b.txt">>],
      [files_created |-> <<"b.txt", "b.txt">>],
      [component_file |-> "a.txt"],
      [page_path |-> "b.txt"],
      [component_file |-> "a.txt", page_path |-> "b.txt"],
      [files_created |-> <<"b.txt">>, component_file |-> "a.txt"] }

\* result.data of the tools of a run.
RunData == { << >> }

ActionTypes == {"tool_use", "complete", "clarify", "error"}

\* ------------------------------------------------------------- helpers
Range(s) == { s[i] : i \in DOMAIN s }

RECURSIVE DictKeys(_)
\* Keys of a dict filled by iterating over s: first occurrences, in order.
DictKeys(s) ==
    IF s = << >> THEN << >>
    ELSE LET front == DictKeys(SubSeq(s, 1, Len(s) - 1))
             last == s[Len(s)]
         IN  IF last \in Range(front) THEN front ELSE Append(front, last)

\* Error messages, kept as records: kind is the fixed text, n and m the
\* numbers and files the paths interpolated into it.
Err(kind, n, m, files) == [kind |-> kind, n |-> n, m |-> m, files |-> files]
NoError == Err("None", 0, 0, << >>)

\* ------------------------------------------------------------ TaskState
TaskState(id, status, files_expected) ==
    [ id |-> id,
      name |-> "Task",
      description |-> "Task",
      status |-> status,
      files_expected |-> files_expected,
      files_created |-> << >>,
      files_verified |-> << >>,
      tool_used |-> NoneStr,
      error |-> NoError,
      iteration_started |-> NoneInt,
      iteration_completed |-> NoneInt,
      retry_count |-> 0,
      max_retries |-> MaxRetries ]

\* file_exists without the size check.
file_exists_any_size(f, p) == f[p] # "missing"

\* PathUtils.file_exists: exists, is a file and st_size > 0.
file_exists(f, p) == f[p] = "content"

\* verify_files_exist that replaces files_verified instead of appending.
verify_files_exist_replacing(t, f) ==
    [ verification |-> [p \in Range(t.files_expected) |-> file_exists(f, p)],
      task |-> [t EXCEPT !.files_verified =
                   SelectSeq(t.files_expected, LAMBDA p : file_exists(f, p))] ]

\* TaskState.verify_files_exist: returns the dict and the task with the
\* confirmed paths appended to files_verified (once per list element).
verify_files_exist(t, f) ==
    [ verification |-> [p \in Range(t.files_expected) |-> file_exists(f, p)],
      task |-> [t EXCEPT !.files_verified =
                   @ \o SelectSeq(t.files_expected, LAMBDA p : file_exists(f, p))] ]

\* verify_completion that trusts files_verified instead of looking again.
verify_completion_cached(t, f) ==
    IF t.files_expected = << >>
    THEN [ok |-> (t.status = "done"), task |-> t]
    ELSE [ok |-> Range(t.files_expected) \subseteq Range(t.files_verified),
          task |-> t]

\* TaskState.verify_completion: returns the boolean and the task as left.
\* verify_completion that takes a task without expected files as complete.
verify_completion_trusting(t, f) ==
    IF t.files_expected = << >>
    THEN [ok |-> TRUE, task |-> t]
    ELSE LET r == verify_files_exist(t, f)
             all_exist == \A p \in DOMAIN r.verification : r.verification[p]
             missing == SelectSeq(DictKeys(t.files_expected), LAMBDA p : ~r.verification[p])
         IN  IF ~all_exist
             THEN [ok |-> FALSE,
                   task |-> [r.task EXCEPT !.error = Err("Missing files", 0, 0, missing)]]
             ELSE [ok |-> TRUE, task |-> r.task]

\* verify_completion that also marks the task failed when a file is missing.
verify_completion_demoting(t, f) ==
    IF t.files_expected = << >>
    THEN [ok |-> (t.status = "done"), task |-> t]
    ELSE LET r == verify_files_exist(t, f)
             all_exist == \A p \in DOMAIN r.verification : r.verification[p]
             missing == SelectSeq(DictKeys(t.files_expected), LAMBDA p : ~r.verification[p])
         IN  IF ~all_exist
             THEN [ok |-> FALSE,
                   task |-> [r.task EXCEPT !.status = "failed",
                                           !.error = Err("Missing files", 0, 0, missing)]]
             ELSE [ok |-> TRUE, task |-> r.task]

verify_completion(t, f) ==
    IF t.files_expected = << >>
    THEN [ok |-> (t.status = "done"), task |-> t]
    ELSE LET r == verify_files_exist(t, f)
             all_exist == \A p \in DOMAIN r.verification : r.verification[p]
             missing == SelectSeq(DictKeys(t.files_expected),
                                  LAMBDA p : ~r.verification[p])
         IN  IF ~all_exist
             THEN [ok |-> FALSE,
                   task |-> [r.task EXCEPT
                               !.error = Err("Missing files", 0, 0, missing)]]
             ELSE [ok |-> TRUE, task |-> r.task]

\* can_retry with <= for <.
can_retry_inclusive(t) == t.status = "failed" /\ t.retry_count <= t.max_retries

\* TaskState.can_retry
can_retry(t) == t.status = "failed" /\ t.retry_count < t.max_retries

\* ------------------------------------------------------------- TaskPlan
RECURSIVE get_next_task_no_count(_, _)
\* get_next_task that forgets to count the retry.
get_next_task_no_count(ts, i) ==
    IF i > Len(ts) THEN [idx |-> 0, tasks |-> ts]
    ELSE IF ts[i].status = "pending" THEN [idx |-> i, tasks |-> ts]
    ELSE IF ts[i].status = "failed" /\ can_retry(ts[i])
         THEN [idx |-> i, tasks |-> ts]
    ELSE get_next_task_no_count(ts, i + 1)

\* get_next_task that takes every pending task before it retries one.
get_next_task_pending_first(ts, i) ==
    LET pending == { j \in i..Len(ts) : ts[j].status = "pending" }
        retryable == { j \in i..Len(ts) :
                         ts[j].status = "failed" /\ can_retry(ts[j]) }
    IN  IF pending # {}
        THEN [idx |-> CHOOSE j \in pending : \A k \in pending : j <= k,
              tasks |-> ts]
        ELSE IF retryable # {}
        THEN LET j == CHOOSE j \in retryable : \A k \in retryable : j <= k
             IN  [idx |-> j, tasks |-> [ts EXCEPT ![j].retry_count = @ + 1]]
        ELSE [idx |-> 0, tasks |-> ts]

RECURSIVE get_next_task_from(_, _)
get_next_task_from(ts, i) ==
    IF i > Len(ts) THEN [idx |-> 0, tasks |-> ts]
    ELSE IF ts[i].status = "pending" THEN [idx |-> i, tasks |-> ts]
    ELSE IF ts[i].status = "failed" /\ can_retry(ts[i])
         THEN [idx |-> i,
               tasks |-> [ts EXCEPT ![i].retry_count = @ + 1]]
    ELSE get_next_task_from(ts, i + 1)

\* TaskPlan.get_next_task: idx is the position of the task returned, 0 for
\* None; tasks is the plan as left by the call.
get_next_task(ts) == get_next_task_from(ts, 1)

RECURSIVE is_complete_any_status(_, _, _)
\* is_complete that does not look at the status.
is_complete_any_status(ts, f, i) ==
    IF i > Len(ts) THEN [ok |-> TRUE, tasks |-> ts]
    ELSE LET r == verify_completion([ts[i] EXCEPT !.status = "done"], f)
         IN  IF ~r.ok THEN [ok |-> FALSE, tasks |-> ts]
             ELSE is_complete_any_status(ts, f, i + 1)

\* is_complete that trusts the statuses and does not verify again.
is_complete_status_only(ts, f, i) ==
    [ok |-> \A j \in i..Len(ts) : ts[j].status = "done", tasks |-> ts]

RECURSIVE is_complete_demoting(_, _, _)
\* is_complete that marks failed the done task that does not verify.
is_complete_demoting(ts, f, i) ==
    IF i > Len(ts) THEN [ok |-> TRUE, tasks |-> ts]
    ELSE IF ts[i].status # "done" THEN [ok |-> FALSE, tasks |-> ts]
    ELSE LET r == verify_completion(ts[i], f)
             ts2 == [ts EXCEPT ![i] = r.task]
         IN  IF ~r.ok
             THEN [ok |-> FALSE, tasks |-> [ts2 EXCEPT ![i].status = "failed"]]
             ELSE is_complete_demoting(ts2, f, i + 1)

RECURSIVE is_complete_from(_, _, _)
is_complete_from(ts, f, i) ==
    IF i > Len(ts) THEN [ok |-> TRUE, tasks |-> ts]
    ELSE IF ts[i].status # "done" THEN [ok |-> FALSE, tasks |-> ts]
    ELSE LET r == verify_completion(ts[i], f)
             ts2 == [ts EXCEPT ![i] = r.task]
         IN  IF ~r.ok THEN [ok |-> FALSE, tasks |-> ts2]
             ELSE is_complete_from(ts2, f, i + 1)

\* is_complete that wants at least one task.
is_complete_nonempty(ts, f) ==
    IF ts = << >> THEN [ok |-> FALSE, tasks |-> ts]
    ELSE is_complete_from(ts, f, 1)

\* TaskPlan.is_complete: all() over a generator, so it stops at the first
\* task that is not done or does not verify.
is_complete(ts, f) == is_complete_from(ts, f, 1)

RECURSIVE verify_all_tasks_no_demotion(_, _, _, _)
\* verify_all_tasks that reports but does not demote.
verify_all_tasks_no_demotion(ts, f, i, ver) ==
    IF i > Len(ts) THEN [verification |-> ver, tasks |-> ts]
    ELSE IF ts[i].status = "done"
         THEN LET r == verify_completion(ts[i], f)
              IN  verify_all_tasks_no_demotion([ts EXCEPT ![i] = r.task], f,
                                               i + 1, ver @@ (ts[i].id :> r.ok))
         ELSE verify_all_tasks_no_demotion(ts, f, i + 1, ver)

RECURSIVE verify_all_tasks_every_status(_, _, _, _)
\* verify_all_tasks without the test on the status.
verify_all_tasks_every_status(ts, f, i, ver) ==
    IF i > Len(ts) THEN [verification |-> ver, tasks |-> ts]
    ELSE LET r == verify_completion(ts[i], f)
             t == IF r.ok THEN r.task ELSE [r.task EXCEPT !.status = "failed"]
         IN  verify_all_tasks_every_status([ts EXCEPT ![i] = t], f, i + 1,
                                           ver @@ (ts[i].id :> r.ok))

RECURSIVE verify_all_tasks_from(_, _, _, _)
verify_all_tasks_from(ts, f, i, ver) ==
    IF i > Len(ts) THEN [verification |-> ver, tasks |-> ts]
    ELSE IF ts[i].status = "done"
         THEN LET r == verify_completion(ts[i], f)
                  t2 == IF r.ok THEN r.task
                        ELSE [r.task EXCEPT !.status = "failed"]
              IN  verify_all_tasks_from([ts EXCEPT ![i] = t2], f, i + 1,
                                        ver @@ (ts[i].id :> r.ok))
         ELSE verify_all_tasks_from(ts, f, i + 1, ver)

\* TaskPlan.verify_all_tasks: the dict {task id: verified} and the plan as
\* left by the call.
verify_all_tasks(ts, f) == verify_all_tasks_from(ts, f, 1, << >>)

\* TaskPlan.get_progress
get_progress(ts) ==
    [st \in {"done", "in_progress", "pending", "failed", "skipped"} |->
        Cardinality({ i \in DOMAIN ts : ts[i].status = st })]
    @@ ("total" :> Len(ts))

\* get_completion_percentage that answers 0 for a plan without tasks.
get_completion_percentage_empty_zero(ts) ==
    IF ts = << >> THEN [num |-> 0, den |-> 1]
    ELSE LET progress == get_progress(ts)
         IN  [num |-> progress["done"] * 100, den |-> progress["total"]]

\* TaskPlan.get_completion_percentage.  The float is kept as the fraction
\* num / den.
get_completion_percentage(ts) ==
    IF ts = << >> THEN [num |-> 100, den |-> 1]
    ELSE LET progress == get_progress(ts)
         IN  [num |-> progress["done"] * 100, den |-> progress["total"]]

RECURSIVE get_files_created(_)
\* TaskPlan.get_files_created
get_files_created(ts) ==
    IF ts = << >> THEN << >>
    ELSE Head(ts).files_verified \o get_files_created(Tail(ts))

\* -------------------------------------------------------- serialisation
\* The TaskPlan dataclass: the tasks and the three fields beside them.
TaskPlan(ts, user_request, created_at, project_dir) ==
    [ tasks |-> ts, user_request |-> user_request, created_at |-> created_at,
      project_dir |-> project_dir ]

\* TaskStatus(value): the member of the enumeration with that value.
TaskStatus(value) ==
    IF value \in {"pending", "in_progress", "done", "failed", "skipped"}
    THEN value ELSE "ValueError"

\* dict.get(key, default)
Get(d, key, default) == IF key \in DOMAIN d THEN d[key] ELSE default

\* TaskState.to_dict: the twelve keys it writes.
to_dict(t) ==
    [ id |-> t.id,
      name |-> t.name,
      description |-> t.description,
      status |-> t.status,
      files_expected |-> t.files_expected,
      files_created |-> t.files_created,
      files_verified |-> t.files_verified,
      tool_used |-> t.tool_used,
      error |-> t.error,
      iteration_started |-> t.iteration_started,
      iteration_completed |-> t.iteration_completed,
      retry_count |-> t.retry_count ]

\* TaskPlan.to_dict
plan_to_dict(p) ==
    [ user_request |-> p.user_request,
      created_at |-> p.created_at,
      project_dir |-> p.project_dir,
      tasks |-> [i \in DOMAIN p.tasks |-> to_dict(p.tasks[i])],
      progress |-> get_progress(p.tasks),
      completion_percentage |-> get_completion_percentage(p.tasks),
      files_created |-> get_files_created(p.tasks) ]

\* json.dumps and json.loads.  Every value of the dictionary is a string, a
\* number, None, a list or a dictionary with string keys, which the text
\* carries unchanged.
json_dumps(d) == [text |-> d]
json_loads(s) == s.text

\* TaskPlan.to_json
to_json(p) == json_dumps(plan_to_dict(p))

\* The TaskState that from_dict builds of one entry of "tasks": the fields it
\* passes to the constructor, and the dataclass defaults for the others.
task_from_dict(t) ==
    [ id |-> t["id"],
      name |-> t["name"],
      description |-> t["description"],
      status |-> TaskStatus(t["status"]),
      files_expected |-> Get(t, "files_expected", << >>),
      files_created |-> Get(t, "files_created", << >>),
      files_verified |-> Get(t, "files_verified", << >>),
      tool_used |-> Get(t, "tool_used", NoneStr),
      error |-> Get(t, "error", NoError),
      iteration_started |-> Get(t, "iteration_started", NoneInt),
      iteration_completed |-> Get(t, "iteration_completed", NoneInt),
      retry_count |-> Get(t, "retry_count", 0),
      max_retries |-> MaxRetries ]

\* TaskPlan.from_dict
from_dict(data) ==
    TaskPlan([i \in DOMAIN data["tasks"] |-> task_from_dict(data["tasks"][i])],
             data["user_request"], data["created_at"],
             Get(data, "project_dir", "."))

\* TaskPlan.from_json
from_json(json_str) == from_dict(json_loads(json_str))

\* ------------------------------------------------------------ ToolResult
ToolResult(success, error, data, tool_name) ==
    [success |-> success, error |-> error, data |-> data, tool_name |-> tool_name]

\* What a registered tool does when called: schema validation or the tool
\* function raises, or the tool returns a result of its own.
ToolOutcomes(data) ==
    { [kind |-> "raises", success |-> FALSE, data |-> << >>] } \cup
    { [kind |-> "returns", success |-> FALSE, data |-> << >>] } \cup
    { [kind |-> "returns", success |-> TRUE, data |-> d] : d \in data }

\* What the tools of a run do: they return.
RunOutcomes == { o \in ToolOutcomes(RunData) : o.kind = "returns" }

\* What an action carries as parameters: nothing ("None"), the empty object,
\* a key/value object, or a JSON value that is no object (AgentAction checks
\* no types).
ParamValues == {"{}", "dict", "list"}
Truthy(parameters) == parameters \in {"dict", "list"}

\* execute_tool once its parameters are logged: look the tool up, validate,
\* call, and turn an exception into a failed ToolResult.
execute_tool_returning(tool_name, outcome) ==
    IF tool_name \notin RegisteredTools
    THEN ToolResult(FALSE, Err("Tool not found", 0, 0, << >>), << >>, tool_name)
    ELSE IF outcome.kind = "raises"
    THEN ToolResult(FALSE, Err("Tool execution failed", 0, 0, << >>), << >>, tool_name)
    ELSE ToolResult(outcome.success,
                    IF outcome.success THEN NoError
                    ELSE Err("tool reported failure", 0, 0, << >>),
                    outcome.data, tool_name)

\* AICodeAgent.execute_tool.  It starts by logging parameters.items(),
\* outside its try block: parameters without items() raise AttributeError
\* to the caller.
execute_tool(tool_name, parameters, outcome) ==
    IF parameters \notin {"{}", "dict"}
    THEN [raised |-> TRUE,
          result |-> ToolResult(FALSE, NoError, << >>, tool_name)]
    ELSE [raised |-> FALSE,
          result |-> execute_tool_returning(tool_name, outcome)]

\* The claimed paths with component_file looked at first.
files_claimed_component_first(data) ==
    IF "component_file" \in DOMAIN data THEN <<data.component_file>>
    ELSE IF "files_created" \in DOMAIN data THEN data.files_created
    ELSE IF "page_path" \in DOMAIN data THEN <<data.page_path>>
    ELSE << >>

\* The paths update_task_state takes as claimed by the tool.
files_claimed_of(data) ==
    IF "files_created" \in DOMAIN data THEN data.files_created
    ELSE IF "component_file" \in DOMAIN data THEN <<data.component_file>>
    ELSE IF "page_path" \in DOMAIN data THEN <<data.page_path>>
    ELSE << >>

\* update_on_failure that verifies the expected files all the same.
update_on_failure_verifying(t, result, f) ==
    [verify_files_exist(t, f).task EXCEPT
        !.status = "failed", !.error = result.error]

\* update_on_failure that counts the failure as a retry.
update_on_failure_counting(t, result, f) ==
    [t EXCEPT !.status = "failed", !.error = result.error,
              !.retry_count = @ + 1]

\* update_task_state when the tool failed: FAILED with the tool's error.
update_on_failure(t, result, f) ==
    [t EXCEPT !.status = "failed", !.error = result.error]

\* update_on_success that clears the error of a task it marks done.
update_on_success_clearing(t, result, iter, f) ==
    LET files_claimed == files_claimed_of(result.data)
        t2 == [t EXCEPT !.files_created = files_claimed]
        r == verify_files_exist(t2, f)
        t3 == r.task
        verified_count ==
            Cardinality({p \in DOMAIN r.verification : r.verification[p]})
        total_expected == Len(t3.files_expected)
        verified_claimed ==
            Cardinality({p \in Range(files_claimed) : file_exists(f, p)})
    IN  IF t3.files_expected # << >>
        THEN IF verified_count = total_expected
             THEN [t3 EXCEPT !.status = "done", !.error = NoError, !.iteration_completed = iter]
             ELSE IF verified_count > 0
             THEN [t3 EXCEPT !.status = "failed",
                     !.error = Err("Only n/m files verified",
                                   verified_count, total_expected, << >>)]
             ELSE [t3 EXCEPT !.status = "failed",
                     !.error = Err("No expected files found on filesystem",
                                   0, 0, << >>)]
        ELSE IF files_claimed # << >>
             THEN IF verified_claimed = Len(files_claimed)
                  THEN [t3 EXCEPT !.status = "done", !.error = NoError,
                          !.files_verified = files_claimed,
                          !.iteration_completed = iter]
                  ELSE [t3 EXCEPT !.status = "failed",
                          !.error = Err("Tool claimed files but only n/m verified",
                                        verified_claimed, Len(files_claimed), << >>)]
             ELSE [t3 EXCEPT !.status = "done", !.error = NoError, !.iteration_completed = iter]

\* update_task_state when the tool succeeded: record the claimed paths,
\* verify the expected ones, decide.
update_on_success(t, result, iter, f) ==
    LET files_claimed == files_claimed_of(result.data)
        t2 == [t EXCEPT !.files_created = files_claimed]
        r == verify_files_exist(t2, f)
        t3 == r.task
        verified_count ==
            Cardinality({p \in DOMAIN r.verification : r.verification[p]})
        total_expected == Len(t3.files_expected)
        verified_claimed ==
            Cardinality({p \in Range(files_claimed) : file_exists(f, p)})
    IN  IF t3.files_expected # << >>
        THEN IF verified_count = total_expected
             THEN [t3 EXCEPT !.status = "done", !.iteration_completed = iter]
             ELSE IF verified_count > 0
             THEN [t3 EXCEPT !.status = "failed",
                     !.error = Err("Only n/m files verified",
                                   verified_count, total_expected, << >>)]
             ELSE [t3 EXCEPT !.status = "failed",
                     !.error = Err("No expected files found on filesystem",
                                   0, 0, << >>)]
        ELSE IF files_claimed # << >>
             THEN IF verified_claimed = Len(files_claimed)
                  THEN [t3 EXCEPT !.status = "done",
                          !.files_verified = files_claimed,
                          !.iteration_completed = iter]
                  ELSE [t3 EXCEPT !.status = "failed",
                          !.error = Err("Tool claimed files but only n/m verified",
                                        verified_claimed, Len(files_claimed), << >>)]
             ELSE [t3 EXCEPT !.status = "done", !.iteration_completed = iter]

\* AICodeAgent.update_task_state: the task as left by the updater.
update_task_state(t, tool_name, result, iter, f) ==
    LET t1 == [t EXCEPT !.tool_used = tool_name] IN
    IF ~result.success
    THEN update_on_failure(t1, result, f)
    ELSE update_on_success(t1, result, iter, f)

\* ------------------------------------------------------------ the Decider
\* AgentAction: a dataclass, so its fields take whatever they are given.
AgentAction(type, tool_name, parameters, message) ==
    [type |-> type, tool_name |-> tool_name, parameters |-> parameters,
     message |-> message]

AgentActionFields == {"type", "tool_name", "parameters", "message", "reasoning"}

\* What json.loads makes of the content of a response: "invalid" (it
\* raises), a scalar, a list of values, or an object, whose fields map some
\* keys to values.
Json(tag, items, fields) == [tag |-> tag, items |-> items, fields |-> fields]

TypeValues == ActionTypes \cup {"bogus"}

\* The objects a response can hold: any subset of the keys of an action and
\* a key AgentAction does not know.
JsonFields ==
    UNION { [K -> {"v"}] : K \in SUBSET {"tool_name", "message", "other"} }
    \cup
    UNION { { ("parameters" :> pv) @@ f : pv \in ParamValues,
                                         f \in [K -> {"v"}] } :
              K \in SUBSET {"tool_name", "message", "other"} }

JsonObjects ==
    { Json("dict", << >>, f) : f \in JsonFields }
    \cup
    { Json("dict", << >>, ("type" :> ty) @@ f) :
        ty \in TypeValues, f \in JsonFields }

JsonScalar == Json("scalar", << >>, << >>)

DeciderResponses ==
    {[kind |-> "api_error", content |-> JsonScalar]}
    \cup
    { [kind |-> "content", content |-> c] :
        c \in {Json("invalid", << >>, << >>), JsonScalar,
               Json("list", << >>, << >>)}
              \cup JsonObjects
              \cup { Json("list", <<x>>, << >>) :
                        x \in JsonObjects \cup {JsonScalar} }
              \cup { Json("list", <<JsonScalar, x>>, << >>) :
                        x \in JsonObjects } }

\* AgentAction(**action_data): a TypeError unless action_data is a mapping
\* that has "type" and only keys that are fields of AgentAction; the
\* except clause turns the TypeError into an ERROR action.
action_from_data(d) ==
    IF d.tag # "dict" \/ "type" \notin DOMAIN d.fields
       \/ ~(DOMAIN d.fields \subseteq AgentActionFields)
    THEN AgentAction("error", NoneStr, NoneStr, "Parse error")
    ELSE AgentAction(d.fields["type"],
                     IF "tool_name" \in DOMAIN d.fields
                     THEN "write_file" ELSE NoneStr,
                     IF "parameters" \in DOMAIN d.fields
                     THEN d.fields["parameters"] ELSE NoneStr,
                     IF "message" \in DOMAIN d.fields THEN "m" ELSE NoneStr)

\* AICodeAgent.decide_action_for_task, from the client's response on.
decide_action_for_task(response) ==
    IF response.kind = "api_error"
    THEN AgentAction("error", NoneStr, NoneStr, "API error")
    ELSE LET parsed == response.content IN
         IF parsed.tag = "invalid"
         THEN AgentAction("error", NoneStr, NoneStr, "Parse error")
         ELSE IF parsed.tag = "list" /\ Len(parsed.items) > 0
         THEN action_from_data(parsed.items[1])
         ELSE IF parsed.tag = "dict"
         THEN action_from_data(parsed)
         ELSE AgentAction("error", NoneStr, NoneStr, "Invalid JSON format")

\* --------------------------------------------------------- AgentContext
\* should_stop_due_to_errors with > for >=.
should_stop_late(consec) == consec > MaxConsecutiveErrors

\* AgentContext.should_stop_due_to_errors
should_stop_due_to_errors(consec) == consec >= MaxConsecutiveErrors

\* ---------------------------------------------------------------- state
VARIABLES
    pc,                 \* where execute() stands
    fs,                 \* the filesystem
    max_iterations,     \* parameter of execute()
    plan_response,      \* what the planning call of plan_tasks came back with
    tasks,              \* task_plan.tasks
    iteration,          \* context.iteration
    errors,             \* context.errors
    consecutive_errors, \* context.consecutive_errors
    tool_results,       \* context.tool_results
    current_task,       \* local current_task of execute(): position, 0 = None
    action,             \* local action of execute(): the Decider's last answer
    verification,       \* local verification of execute(): verify_all_tasks()
    report,             \* what execute() returns
    decider_calls,      \* number of decide_action_for_task calls answered
    tool_calls,         \* number of execute_tool calls made
    fail_streak,        \* iterations in a row that ended in a tool or
                        \* verification failure
    call,               \* the last direct call of a TaskPlan / updater method
    suspended           \* the other run of execute() on the same agent, if
                        \* there is one: its locals while it waits

vars == <<pc, fs, max_iterations, plan_response, tasks, iteration, errors, consecutive_errors,
          tool_results, current_task, action, verification, report,
          decider_calls, tool_calls, fail_streak, call, suspended>>

NoAction == [type |-> NoneStr, tool_name |-> NoneStr, parameters |-> NoneStr,
             message |-> NoneStr]
NoReport == [kind |-> "none"]
NoCall == [op |-> NoneStr, task |-> 0, ok |-> FALSE, ver |-> << >>,
           result |-> ToolResult(FALSE, NoError, << >>, NoneStr),
           iter |-> 0, n |-> 0, prev_op |-> NoneStr,
           response |-> [kind |-> NoneStr, content |-> JsonScalar],
           args |-> [parameters |-> NoneStr, outcome |-> NoneStr],
           raised |-> FALSE,
           plan |-> [user_request |-> NoneStr, created_at |-> 0,
                     project_dir |-> NoneStr],
           json |-> NoneStr]

\* The locals of one call of execute(): context, task_plan and the loop's
\* own, at the start of the call.
FreshFrame(m) ==
    [ pc |-> "plan", max_iterations |-> m, plan_response |-> NoneStr,
      tasks |-> << >>, iteration |-> 0, errors |-> << >>,
      consecutive_errors |-> 0, tool_results |-> << >>, current_task |-> 0,
      action |-> NoAction, verification |-> << >>, report |-> NoReport,
      decider_calls |-> 0, tool_calls |-> 0, fail_streak |-> 0 ]

\* No second run.
NoRun == [run |-> 0, frame |-> FreshFrame(0)]

Init ==
    /\ suspended = NoRun
    /\ pc = "plan"
    /\ fs = [p \in Paths |-> "missing"]
    /\ max_iterations \in {MinIter, MaxIter}
    /\ plan_response = NoneStr
    /\ tasks = << >>
    /\ iteration = 0
    /\ errors = << >>
    /\ consecutive_errors = 0
    /\ tool_results = << >>
    /\ current_task = 0
    /\ action = NoAction
    /\ verification = << >>
    /\ report = NoReport
    /\ decider_calls = 0
    /\ tool_calls = 0
    /\ fail_streak = 0
    /\ call = NoCall

\* The paths a run can look at: those its plan expects and those its tools
\* claim.  The others are left as they are.
Relevant(ts) ==
    UNION { Range(ts[i].files_expected) : i \in DOMAIN ts } \cup
    UNION { Range(files_claimed_of(d)) : d \in RunData }
FsAfter(f, ts) ==
    { g \in FsStates : \A p \in Paths \ Relevant(ts) : g[p] = f[p] }

ctx_vars == <<iteration, errors, consecutive_errors, tool_results>>
ghost_vars == <<decider_calls, tool_calls, fail_streak>>
loop_locals == <<current_task, action, verification, report>>

\* ------------------------------------------------------------- planning
\* plan_tasks, the planning call raises an API error: one task, FAILED.
PlanApiError ==
    /\ pc = "plan"
    /\ tasks' = << TaskState(1, "failed", << >>) >>
    /\ pc' = "loop_head"
    /\ plan_response' = "api_error"
    /\ UNCHANGED <<fs, max_iterations, suspended, call, ctx_vars, loop_locals, ghost_vars>>

\* plan_tasks, the response parses: one PENDING task per entry, ids 1..n.
PlanParsed ==
    /\ pc = "plan"
    /\ \E n \in 0..MaxTasks : \E fe \in [1..n -> ExpectedChoices] :
          /\ \A i \in 1..n : fe[i] \in RunExpected(n)
          /\ tasks' = [i \in 1..n |-> TaskState(i, "pending", fe[i])]
    /\ pc' = "loop_head"
    /\ plan_response' = "tasks"
    /\ UNCHANGED <<fs, max_iterations, suspended, call, ctx_vars, loop_locals, ghost_vars>>

\* plan_tasks, the response is not JSON: one PENDING task for the request.
PlanFallback ==
    /\ pc = "plan"
    /\ tasks' = << TaskState(1, "pending", << >>) >>
    /\ pc' = "loop_head"
    /\ plan_response' = "not_json"
    /\ UNCHANGED <<fs, max_iterations, suspended, call, ctx_vars, loop_locals, ghost_vars>>

\* plan_tasks raises anything but JSONDecodeError (JSON without "tasks", an
\* entry without "name", ...): execute() returns from its except clause.
PlanRaises ==
    /\ pc = "plan"
    /\ report' = [kind |-> "exception", success |-> FALSE,
                  error |-> "str(e)", iterations |-> iteration]
    /\ pc' = "done"
    /\ plan_response' = "no_tasks"
    /\ UNCHANGED <<fs, max_iterations, suspended, call, tasks, ctx_vars, current_task,
                   action, verification, ghost_vars>>

\* ------------------------------------------------------------- the loop
\* The loop head with <= for < in the loop condition.
LoopHeadInclusive ==
    /\ pc = "loop_head"
    /\ IF iteration <= max_iterations
       THEN LET r == get_next_task(tasks) IN
            /\ iteration' = iteration + 1
            /\ IF r.idx = 0
               THEN /\ tasks' = r.tasks
                    /\ pc' = "final"
                    /\ UNCHANGED current_task
               ELSE /\ tasks' = [r.tasks EXCEPT
                                   ![r.idx].status = "in_progress",
                                   ![r.idx].iteration_started = iteration + 1]
                    /\ current_task' = r.idx
                    /\ pc' = "deciding"
       ELSE /\ pc' = "final"
            /\ UNCHANGED <<iteration, tasks, current_task>>
    /\ UNCHANGED <<fs, max_iterations, suspended, plan_response, call, errors,
                   consecutive_errors, tool_results,
                   action, verification, report, ghost_vars>>

\* while context.iteration < max_iterations: iteration += 1, get_next_task,
\* break on None, else mark the task IN_PROGRESS and call the Decider.
LoopHead ==
    /\ pc = "loop_head"
    /\ IF iteration < max_iterations
       THEN LET r == get_next_task(tasks) IN
            /\ iteration' = iteration + 1
            /\ IF r.idx = 0
               THEN /\ tasks' = r.tasks
                    /\ pc' = "final"
                    /\ UNCHANGED current_task
               ELSE /\ tasks' = [r.tasks EXCEPT
                                   ![r.idx].status = "in_progress",
                                   ![r.idx].iteration_started = iteration + 1]
                    /\ current_task' = r.idx
                    /\ pc' = "deciding"
       ELSE /\ pc' = "final"
            /\ UNCHANGED <<iteration, tasks, current_task>>
    /\ UNCHANGED <<fs, max_iterations, suspended, plan_response, call, errors,
                   consecutive_errors, tool_results,
                   action, verification, report, ghost_vars>>

\* End of an iteration that reaches it: if task_plan.is_complete(): break.
\* ts is the plan and f the filesystem at that point.
EndOfIteration(ts, f) ==
    LET r == is_complete(ts, f) IN
    /\ tasks' = r.tasks
    /\ pc' = IF r.ok THEN "final" ELSE "loop_head"

\* ActComplete that leaves the error counter alone on a verified task.
ActCompleteKeepingCount ==
    /\ pc = "deciding"
    /\ action' = [type |-> "complete", tool_name |-> NoneStr,
                  parameters |-> NoneStr, message |-> NoneStr]
    /\ decider_calls' = decider_calls + 1
    /\ fail_streak' = 0
    /\ LET r == verify_completion(tasks[current_task], fs) IN
       IF r.ok
       THEN /\ tasks' = [tasks EXCEPT ![current_task] =
                           [r.task EXCEPT !.status = "done",
                                          !.iteration_completed = iteration]]
            /\ pc' = "loop_head"
            /\ UNCHANGED <<errors, consecutive_errors>>
       ELSE /\ errors' = Append(errors,
                   Err("claims complete but verification failed", 0, 0, << >>))
            /\ consecutive_errors' = consecutive_errors + 1
            /\ IF should_stop_due_to_errors(consecutive_errors + 1)
               THEN /\ tasks' = [tasks EXCEPT ![current_task] =
                         [r.task EXCEPT !.status = "failed",
                            !.error = Err("Stopped after n consecutive validation failures",
                                          consecutive_errors + 1, 0, << >>)]]
                    /\ pc' = "final"
               ELSE /\ tasks' = [tasks EXCEPT ![current_task] =
                         [r.task EXCEPT !.status = "failed"]]
                    /\ pc' = "loop_head"
    /\ UNCHANGED <<fs, max_iterations, suspended, plan_response, call, iteration,
                   tool_results, current_task,
                   verification, report, tool_calls>>

\* The Decider answers "complete": verify the current task.
ActComplete ==
    /\ pc = "deciding"
    /\ action' = [type |-> "complete", tool_name |-> NoneStr,
                  parameters |-> NoneStr, message |-> NoneStr]
    /\ decider_calls' = decider_calls + 1
    /\ fail_streak' = 0
    /\ LET r == verify_completion(tasks[current_task], fs) IN
       IF r.ok
       THEN /\ tasks' = [tasks EXCEPT ![current_task] =
                           [r.task EXCEPT !.status = "done",
                                          !.iteration_completed = iteration]]
            /\ consecutive_errors' = 0
            /\ pc' = "loop_head"
            /\ UNCHANGED errors
       ELSE /\ errors' = Append(errors,
                   Err("claims complete but verification failed", 0, 0, << >>))
            /\ consecutive_errors' = consecutive_errors + 1
            /\ IF should_stop_due_to_errors(consecutive_errors + 1)
               THEN /\ tasks' = [tasks EXCEPT ![current_task] =
                         [r.task EXCEPT !.status = "failed",
                            !.error = Err("Stopped after n consecutive validation failures",
                                          consecutive_errors + 1, 0, << >>)]]
                    /\ pc' = "final"
               ELSE /\ tasks' = [tasks EXCEPT ![current_task] =
                         [r.task EXCEPT !.status = "failed"]]
                    /\ pc' = "loop_head"
    /\ UNCHANGED <<fs, max_iterations, suspended, plan_response, call, iteration,
                   tool_results, current_task,
                   verification, report, tool_calls>>

\* The Decider answers "error" (or its call or the parsing of its answer
\* failed, which decide_action_for_task turns into an ERROR action).
ActError ==
    /\ pc = "deciding"
    /\ \E msg \in {NoneStr} :
       LET error_msg == IF msg # NoneStr THEN msg ELSE "Unknown error" IN
       /\ action' = [type |-> "error", tool_name |-> NoneStr,
                     parameters |-> NoneStr, message |-> msg]
       /\ errors' = Append(errors, Err(error_msg, 0, 0, << >>))
    /\ decider_calls' = decider_calls + 1
    /\ fail_streak' = 0
    /\ consecutive_errors' = consecutive_errors + 1
    /\ IF should_stop_due_to_errors(consecutive_errors + 1)
       THEN /\ tasks' = [tasks EXCEPT
                 ![current_task].status = "failed",
                 ![current_task].error =
                     Err("Stopped after n consecutive errors",
                         consecutive_errors + 1, 0, << >>)]
            /\ pc' = "final"
       ELSE /\ tasks' = [tasks EXCEPT ![current_task].error =
                           Err("Action error", 0, 0, << >>)]
            /\ pc' = "loop_head"
    /\ UNCHANGED <<fs, max_iterations, suspended, plan_response, call, iteration,
                   tool_results, current_task,
                   verification, report, tool_calls>>

\* The types of the answers that come with a tool in a run.  The loop tests
\* the type for "complete" and "error" only, so any other type goes the way
\* of these two.
RunToolTypes == {"tool_use", "clarify"}

\* ActTool that counts a failed tool call but not a failed verification.
ActToolCountingToolFailuresOnly ==
    /\ pc = "deciding"
    /\ \E type \in RunToolTypes :
       \E tool_name \in RunToolNames : \E outcome \in RunOutcomes :
       \E fs1 \in FsAfter(fs, tasks) :
       LET result == execute_tool(tool_name, "dict", outcome).result
           t == update_task_state(tasks[current_task], tool_name, result,
                                  iteration, fs1)
           failed == ~result.success
           error_msg ==
               IF ~result.success THEN Err("Tool failed", 0, 0, << >>)
               ELSE Err("Verification failed for", 0, 0, << >>)
           stop_msg ==
               IF ~result.success
               THEN Err("Stopped after n consecutive errors",
                        consecutive_errors + 1, 0, << >>)
               ELSE Err("Stopped after n consecutive verification failures",
                        consecutive_errors + 1, 0, << >>)
       IN
       /\ action' = [type |-> type, tool_name |-> tool_name,
                     parameters |-> "dict", message |-> NoneStr]
       /\ fs' = fs1
       /\ tool_results' = Append(tool_results,
                [tool_name |-> tool_name, success |-> result.success])
       /\ IF ~failed
          THEN /\ EndOfIteration([tasks EXCEPT ![current_task] = t], fs1)
               /\ consecutive_errors' = 0
               /\ fail_streak' = 0
               /\ UNCHANGED errors
          ELSE /\ errors' = Append(errors, error_msg)
               /\ consecutive_errors' = consecutive_errors + 1
               /\ fail_streak' = fail_streak + 1
               /\ IF should_stop_due_to_errors(consecutive_errors + 1)
                  THEN /\ tasks' = [tasks EXCEPT ![current_task] =
                              [t EXCEPT !.status =
                                   IF ~result.success THEN "failed" ELSE @,
                                 !.error = stop_msg]]
                       /\ pc' = "final"
                  ELSE /\ EndOfIteration([tasks EXCEPT ![current_task] = t], fs1)
    /\ decider_calls' = decider_calls + 1
    /\ tool_calls' = tool_calls + 1
    /\ UNCHANGED <<max_iterations, suspended, plan_response, call, iteration,
                   current_task, verification,
                   report>>

\* The Decider's answer is neither "complete" nor "error" and carries a tool
\* name and parameters: execute the tool, run the updater, account for the
\* outcome.  fs1 is the filesystem as the tool call leaves it.
ActTool ==
    /\ pc = "deciding"
    /\ \E type \in RunToolTypes :
       \E tool_name \in RunToolNames : \E outcome \in RunOutcomes :
       \E fs1 \in FsAfter(fs, tasks) :
       LET result == execute_tool(tool_name, "dict", outcome).result
           t == update_task_state(tasks[current_task], tool_name, result,
                                  iteration, fs1)
           failed == ~(result.success /\ t.status = "done")
                     /\ (~result.success \/ t.status = "failed")
           error_msg ==
               IF ~result.success THEN Err("Tool failed", 0, 0, << >>)
               ELSE Err("Verification failed for", 0, 0, << >>)
           stop_msg ==
               IF ~result.success
               THEN Err("Stopped after n consecutive errors",
                        consecutive_errors + 1, 0, << >>)
               ELSE Err("Stopped after n consecutive verification failures",
                        consecutive_errors + 1, 0, << >>)
       IN
       /\ action' = [type |-> type, tool_name |-> tool_name,
                     parameters |-> "dict", message |-> NoneStr]
       /\ fs' = fs1
       /\ tool_results' = Append(tool_results,
                [tool_name |-> tool_name, success |-> result.success])
       /\ IF ~failed
          THEN /\ EndOfIteration([tasks EXCEPT ![current_task] = t], fs1)
               /\ consecutive_errors' = 0
               /\ fail_streak' = 0
               /\ UNCHANGED errors
          ELSE /\ errors' = Append(errors, error_msg)
               /\ consecutive_errors' = consecutive_errors + 1
               /\ fail_streak' = fail_streak + 1
               /\ IF should_stop_due_to_errors(consecutive_errors + 1)
                  THEN /\ tasks' = [tasks EXCEPT ![current_task] =
                              [t EXCEPT !.status =
                                   IF ~result.success THEN "failed" ELSE @,
                                 !.error = stop_msg]]
                       /\ pc' = "final"
                  ELSE /\ EndOfIteration([tasks EXCEPT ![current_task] = t], fs1)
    /\ decider_calls' = decider_calls + 1
    /\ tool_calls' = tool_calls + 1
    /\ UNCHANGED <<max_iterations, suspended, plan_response, call, iteration,
                   current_task, verification,
                   report>>

\* The Decider's answer carries a tool name and parameters that are no
\* key/value object: execute_tool raises, and execute() returns from its
\* except clause.
ActToolRaises ==
    /\ pc = "deciding"
    /\ \E type \in RunToolTypes :
       \E tool_name \in RunToolNames : \E outcome \in RunOutcomes :
       /\ execute_tool(tool_name, "list", outcome).raised
       /\ action' = [type |-> type, tool_name |-> tool_name,
                     parameters |-> "list", message |-> NoneStr]
    /\ decider_calls' = decider_calls + 1
    /\ tool_calls' = tool_calls + 1
    /\ report' = [kind |-> "exception", success |-> FALSE,
                  error |-> "str(e)", iterations |-> iteration]
    /\ pc' = "done"
    /\ UNCHANGED <<fs, max_iterations, suspended, plan_response, call, tasks, ctx_vars,
                   current_task,
                   verification, fail_streak>>

\* ActNoTool that records the missing tool as a failure of the task.
ActNoToolCounted ==
    /\ pc = "deciding"
    /\ \E type \in TypeValues \ {"complete", "error"} :
       \E tool_name \in RunToolNames \cup {NoneStr} :
       \E parameters \in ParamValues \cup {NoneStr} :
       /\ tool_name = NoneStr \/ ~Truthy(parameters)
       /\ tool_name = NoneStr => parameters \in {NoneStr, "dict"}
       /\ action' = [type |-> type, tool_name |-> tool_name,
                     parameters |-> parameters, message |-> NoneStr]
    /\ decider_calls' = decider_calls + 1
    /\ fail_streak' = 0
    /\ EndOfIteration([tasks EXCEPT ![current_task].status = "failed"], fs)
    /\ errors' = Append(errors, Err("No tool to execute", 0, 0, << >>))
    /\ consecutive_errors' = consecutive_errors + 1
    /\ UNCHANGED <<fs, max_iterations, suspended, plan_response, call, iteration,
                   tool_results, current_task,
                   verification, report, tool_calls>>

\* The Decider's answer is neither "complete" nor "error" and lacks a tool
\* name or parameters: nothing is executed.
ActNoTool ==
    /\ pc = "deciding"
    /\ \E type \in TypeValues \ {"complete", "error"} :
       \E tool_name \in RunToolNames \cup {NoneStr} :
       \E parameters \in ParamValues \cup {NoneStr} :
       /\ tool_name = NoneStr \/ ~Truthy(parameters)
       /\ tool_name = NoneStr => parameters \in {NoneStr, "dict"}
       /\ action' = [type |-> type, tool_name |-> tool_name,
                     parameters |-> parameters, message |-> NoneStr]
    /\ decider_calls' = decider_calls + 1
    /\ fail_streak' = 0
    /\ EndOfIteration(tasks, fs)
    /\ UNCHANGED <<fs, max_iterations, suspended, plan_response, call, ctx_vars,
                   current_task,
                   verification, report, tool_calls>>

\* ------------------------------------------------- final check and report
\* verification = task_plan.verify_all_tasks()
FinalVerification ==
    /\ pc = "final"
    /\ LET r == verify_all_tasks(tasks, fs) IN
       /\ tasks' = r.tasks
       /\ verification' = r.verification
    /\ pc' = "report"
    /\ UNCHANGED <<fs, max_iterations, suspended, plan_response, call, ctx_vars,
                   current_task, action, report,
                   ghost_vars>>

\* get_files_created(), is_complete() for the response message, then the
\* returned dict, whose entries are evaluated in order: is_complete() again,
\* task_plan.to_dict(), ...
Report ==
    /\ pc = "report"
    /\ LET files_created == get_files_created(tasks)
           c1 == is_complete(tasks, fs)
           c2 == is_complete(c1.tasks, fs)
       IN
       /\ tasks' = c2.tasks
       /\ report' = [kind |-> "normal",
                     success |-> c2.ok,
                     response |-> IF c1.ok THEN "Successfully completed all"
                                  ELSE "Completed n/m tasks",
                     task_plan |-> [tasks |-> c2.tasks,
                                    files_created |-> get_files_created(c2.tasks)],
                     iterations |-> iteration,
                     files_created |-> files_created,
                     actions_taken |-> [i \in DOMAIN tool_results |->
                                           tool_results[i].tool_name]]
    /\ pc' = "done"
    /\ UNCHANGED <<fs, max_iterations, suspended, plan_response, call, ctx_vars,
                   current_task, action,
                   verification, ghost_vars>>

\* The filesystem changes under the run (another process, or a tool's work
\* still landing).
FsChange ==
    /\ pc \in {"loop_head", "deciding", "final", "report"}
    /\ \E p \in Relevant(tasks) : \E st \in FileStates \ {fs[p]} :
          fs' = [fs EXCEPT ![p] = st]
    /\ UNCHANGED <<pc, max_iterations, suspended, plan_response, call, tasks, ctx_vars,
                   loop_locals, ghost_vars>>

Next ==
    \/ PlanApiError
    \/ PlanParsed
    \/ PlanFallback
    \/ PlanRaises
    \/ LoopHead
    \/ ActComplete
    \/ ActError
    \/ ActTool
    \/ ActToolRaises
    \/ ActNoTool
    \/ FinalVerification
    \/ Report
    \/ FsChange

Spec == Init /\ [][Next]_vars

\* ------------------------------------------ two runs on the same agent
\* The locals of the run that is executing.
Frame ==
    [ pc |-> pc, max_iterations |-> max_iterations,
      plan_response |-> plan_response, tasks |-> tasks,
      iteration |-> iteration, errors |-> errors,
      consecutive_errors |-> consecutive_errors,
      tool_results |-> tool_results, current_task |-> current_task,
      action |-> action, verification |-> verification, report |-> report,
      decider_calls |-> decider_calls, tool_calls |-> tool_calls,
      fail_streak |-> fail_streak ]

\* Where a run gives up control: the call has not started or has returned,
\* or it awaits the planning call or the Decider (the tool call the answer
\* leads to is taken in the same step).
SuspensionPoints == {"plan", "deciding", "done"}

\* Two calls of execute() on one agent, each with max_iterations = MinIter;
\* run 1 executes first, run 2 has not started.
TwoInit ==
    /\ suspended = [run |-> 2, frame |-> FreshFrame(MinIter)]
    /\ pc = "plan"
    /\ fs = [p \in Paths |-> "missing"]
    /\ max_iterations = MinIter
    /\ plan_response = NoneStr
    /\ tasks = << >>
    /\ iteration = 0
    /\ errors = << >>
    /\ consecutive_errors = 0
    /\ tool_results = << >>
    /\ current_task = 0
    /\ action = NoAction
    /\ verification = << >>
    /\ report = NoReport
    /\ decider_calls = 0
    /\ tool_calls = 0
    /\ fail_streak = 0
    /\ call = NoCall

\* A Switch with the context kept on the agent: both runs use one.
SwitchSharedContext ==
    /\ suspended.run # 0
    /\ pc \in SuspensionPoints
    /\ suspended.frame.pc # "done"
    /\ suspended' = [run |-> 3 - suspended.run, frame |-> Frame]
    /\ pc' = suspended.frame.pc
    /\ max_iterations' = suspended.frame.max_iterations
    /\ plan_response' = suspended.frame.plan_response
    /\ tasks' = suspended.frame.tasks
    /\ current_task' = suspended.frame.current_task
    /\ action' = suspended.frame.action
    /\ verification' = suspended.frame.verification
    /\ report' = suspended.frame.report
    /\ decider_calls' = suspended.frame.decider_calls
    /\ tool_calls' = suspended.frame.tool_calls
    /\ fail_streak' = suspended.frame.fail_streak
    /\ UNCHANGED <<fs, call, ctx_vars>>

\* The event loop resumes the other run while this one waits: each run has
\* its own context and task_plan, locals of its call of execute(); the agent
\* and the filesystem are the same for both.
Switch ==
    /\ suspended.run # 0
    /\ pc \in SuspensionPoints
    /\ suspended.frame.pc # "done"
    /\ suspended' = [run |-> 3 - suspended.run, frame |-> Frame]
    /\ pc' = suspended.frame.pc
    /\ max_iterations' = suspended.frame.max_iterations
    /\ plan_response' = suspended.frame.plan_response
    /\ tasks' = suspended.frame.tasks
    /\ iteration' = suspended.frame.iteration
    /\ errors' = suspended.frame.errors
    /\ consecutive_errors' = suspended.frame.consecutive_errors
    /\ tool_results' = suspended.frame.tool_results
    /\ current_task' = suspended.frame.current_task
    /\ action' = suspended.frame.action
    /\ verification' = suspended.frame.verification
    /\ report' = suspended.frame.report
    /\ decider_calls' = suspended.frame.decider_calls
    /\ tool_calls' = suspended.frame.tool_calls
    /\ fail_streak' = suspended.frame.fail_streak
    /\ UNCHANGED <<fs, call>>

\* The plans of the two runs have one task at most, the planner of run 2
\* answers with text that is not JSON, and of the files only a.txt comes and
\* goes.
TwoBound ==
    /\ Len(tasks) <= 1
    /\ suspended.run = 1 => plan_response \in {NoneStr, "not_json"}
    /\ fs["a.txt"] # "empty" /\ fs["b.txt"] = "missing"

TwoNext ==
    \/ Next /\ TwoBound'
    \/ Switch

SpecTwo == TwoInit /\ [][TwoNext]_vars

\* ------------------------------------------------ direct calls of the API
\* The methods of TaskState / TaskPlan and the updater, called directly (as
\* the tests do) on a plan and a filesystem drawn from bounded sets.

Statuses == {"pending", "in_progress", "done", "failed", "skipped"}

\* A task as a caller may hand it in: any status, any files_expected, a
\* failed task with no, all but one or all of its retries used, a done task
\* with its files verified earlier or not.
UnitTaskStates(id) ==
    { [TaskState(id, st, fe) EXCEPT !.retry_count = rc] :
        st \in Statuses \ {"failed"}, fe \in ExpectedChoices, rc \in {0} }
    \cup
    { [TaskState(id, "failed", fe) EXCEPT !.retry_count = rc] :
        fe \in ExpectedChoices, rc \in {0, MaxRetries - 1, MaxRetries} }
    \cup
    { [TaskState(id, "done", fe) EXCEPT !.files_verified = fe] :
        fe \in ExpectedChoices \ {<< >>} }

UnitPlans ==
    UNION { { ts \in [1..n -> UNION { UnitTaskStates(i) : i \in 1..n }] :
                \A i \in 1..n : ts[i].id = i } : n \in 1..UnitTasks }

\* Results a tool call can hand to the updater.
UnitResults ==
    { execute_tool(name, "dict", o).result :
        name \in ToolNames, o \in ToolOutcomes(DataChoices) }

UnitInit ==
    /\ suspended = NoRun
    /\ pc = "unit"
    /\ fs \in FsStates
    /\ tasks \in UnitPlans
    /\ max_iterations = 0
    /\ plan_response = NoneStr
    /\ iteration = 0
    /\ errors = << >>
    /\ consecutive_errors = 0
    /\ tool_results = << >>
    /\ current_task = 0
    /\ action = NoAction
    /\ verification = << >>
    /\ report = NoReport
    /\ decider_calls = 0
    /\ tool_calls = 0
    /\ fail_streak = 0
    /\ call = NoCall

unit_frame == <<pc, fs, max_iterations, suspended, plan_response, ctx_vars,
               loop_locals, ghost_vars>>

UnitGetNextTask ==
    /\ pc = "unit" /\ call.n < MaxCalls
    /\ LET r == get_next_task(tasks) IN
       /\ tasks' = r.tasks
       /\ call' = [NoCall EXCEPT !.op = "get_next_task", !.task = r.idx,
                                 !.ok = (r.idx # 0), !.n = call.n + 1,
                                 !.prev_op = call.op]
    /\ UNCHANGED unit_frame

UnitIsComplete ==
    /\ pc = "unit" /\ call.n < MaxCalls
    /\ LET r == is_complete(tasks, fs) IN
       /\ tasks' = r.tasks
       /\ call' = [NoCall EXCEPT !.op = "is_complete", !.ok = r.ok,
                                 !.n = call.n + 1,
                                 !.prev_op = call.op]
    /\ UNCHANGED unit_frame

UnitVerifyAllTasks ==
    /\ pc = "unit" /\ call.n < MaxCalls
    /\ LET r == verify_all_tasks(tasks, fs) IN
       /\ tasks' = r.tasks
       /\ call' = [NoCall EXCEPT !.op = "verify_all_tasks",
                                 !.ver = r.verification, !.n = call.n + 1,
                                 !.prev_op = call.op]
    /\ UNCHANGED unit_frame

UnitVerifyCompletion ==
    /\ pc = "unit" /\ call.n < MaxCalls
    /\ \E i \in DOMAIN tasks :
       LET r == verify_completion(tasks[i], fs) IN
       /\ tasks' = [tasks EXCEPT ![i] = r.task]
       /\ call' = [NoCall EXCEPT !.op = "verify_completion", !.task = i,
                                 !.ok = r.ok, !.n = call.n + 1,
                                 !.prev_op = call.op]
    /\ UNCHANGED unit_frame

UnitVerifyFilesExist ==
    /\ pc = "unit" /\ call.n < MaxCalls
    /\ \E i \in DOMAIN tasks :
       LET r == verify_files_exist(tasks[i], fs) IN
       /\ tasks' = [tasks EXCEPT ![i] = r.task]
       /\ call' = [NoCall EXCEPT !.op = "verify_files_exist", !.task = i,
                                 !.ver = r.verification, !.n = call.n + 1,
                                 !.prev_op = call.op]
    /\ UNCHANGED unit_frame

\* update_task_state on the first task of the plan, as the first call.
UnitUpdateTaskState ==
    /\ pc = "unit" /\ call.n = 0
    /\ \E result \in UnitResults :
       /\ tasks' = [tasks EXCEPT ![1] =
             update_task_state(tasks[1], result.tool_name, result, 1, fs)]
       /\ call' = [NoCall EXCEPT !.op = "update_task_state", !.task = 1,
                                 !.result = result, !.iter = 1,
                                 !.n = call.n + 1,
                                 !.prev_op = call.op]
    /\ UNCHANGED unit_frame

\* decide_action_for_task, called as the loop calls it: for the task it has
\* just marked IN_PROGRESS.  Neither the plan nor the filesystem is touched.
UnitDecide ==
    /\ pc = "unit" /\ call.n = 0
    /\ Len(tasks) = 1 /\ tasks[1].status = "in_progress"
    /\ \E response \in DeciderResponses :
       /\ action' = decide_action_for_task(response)
       /\ call' = [NoCall EXCEPT !.op = "decide_action_for_task", !.task = 1,
                                 !.response = response, !.n = call.n + 1,
                                 !.prev_op = call.op]
    /\ UNCHANGED <<pc, fs, max_iterations, suspended, plan_response, tasks, ctx_vars,
                   current_task,
                   verification, report, ghost_vars>>

\* execute_tool, called with what an action can carry as tool name and
\* parameters.  Neither the plan nor the filesystem is touched here.
UnitExecuteTool ==
    /\ pc = "unit" /\ call.n = 0
    /\ Len(tasks) = 1 /\ tasks[1].status = "in_progress"
    /\ \E tool_name \in ToolNames : \E parameters \in ParamValues :
       \E outcome \in ToolOutcomes(DataChoices) :
       LET r == execute_tool(tool_name, parameters, outcome) IN
       call' = [NoCall EXCEPT !.op = "execute_tool", !.task = 1,
                              !.result = r.result, !.raised = r.raised,
                              !.args = [parameters |-> parameters,
                                        outcome |-> outcome.kind],
                              !.ok = ~r.raised /\ r.result.success,
                              !.n = call.n + 1, !.prev_op = call.op]
    /\ UNCHANGED <<tasks, unit_frame>>

UnitNext ==
    \/ UnitDecide
    \/ UnitExecuteTool
    \/ UnitGetNextTask
    \/ UnitIsComplete
    \/ UnitVerifyAllTasks
    \/ UnitVerifyCompletion
    \/ UnitVerifyFilesExist
    \/ UnitUpdateTaskState

SpecUnit == UnitInit /\ [][UnitNext]_vars

\* ------------------------------------------- serialisation harness
\* Plans a caller may build and serialise: every status, retries unused or
\* at the default limit, the default limit or a larger one, two names.
SerTaskStates(id) ==
    { [TaskState(id, st, fe) EXCEPT !.name = nm, !.retry_count = rc,
                                    !.max_retries = mr, !.files_verified = fe] :
        st \in Statuses, fe \in {<< >>, <<"a.txt">>}, nm \in {"Task", "Other"},
        rc \in {0, MaxRetries}, mr \in {MaxRetries, MaxRetries + 2} }

SerPlans ==
    UNION { { ts \in [1..n -> UNION { SerTaskStates(i) : i \in 1..n }] :
                \A i \in 1..n : ts[i].id = i } : n \in 0..UnitTasks }

SerHeaders ==
    { [user_request |-> "request", created_at |-> 0, project_dir |-> d] :
        d \in {".", "demo"} }

ThePlan == TaskPlan(tasks, call.plan.user_request, call.plan.created_at,
                    call.plan.project_dir)

SerInit ==
    /\ suspended = NoRun
    /\ pc = "ser"
    /\ fs = [p \in Paths |-> "missing"]
    /\ tasks \in SerPlans
    /\ max_iterations = 0
    /\ plan_response = NoneStr
    /\ iteration = 0
    /\ errors = << >>
    /\ consecutive_errors = 0
    /\ tool_results = << >>
    /\ current_task = 0
    /\ action = NoAction
    /\ verification = << >>
    /\ report = NoReport
    /\ decider_calls = 0
    /\ tool_calls = 0
    /\ fail_streak = 0
    /\ \E h \in SerHeaders : call = [NoCall EXCEPT !.plan = h]

\* json_str = plan.to_json()
SerToJson ==
    /\ pc = "ser" /\ call.op = NoneStr
    /\ call' = [call EXCEPT !.op = "to_json", !.json = to_json(ThePlan),
                            !.n = call.n + 1, !.prev_op = call.op]
    /\ UNCHANGED <<tasks, unit_frame>>

\* plan = TaskPlan.from_json(json_str)
SerFromJson ==
    /\ pc = "ser" /\ call.op = "to_json"
    /\ LET p == from_json(call.json) IN
       /\ tasks' = p.tasks
       /\ call' = [call EXCEPT !.op = "from_json", !.n = call.n + 1,
                               !.prev_op = call.op,
                               !.plan = [user_request |-> p.user_request,
                                         created_at |-> p.created_at,
                                         project_dir |-> p.project_dir]]
    /\ UNCHANGED unit_frame

\* plan.get_next_task() on the plan as built or as read back.
SerGetNextTask ==
    /\ pc = "ser" /\ call.op \in {NoneStr, "from_json"}
    /\ LET r == get_next_task(tasks) IN
       /\ tasks' = r.tasks
       /\ call' = [call EXCEPT !.op = "get_next_task", !.task = r.idx,
                               !.n = call.n + 1, !.prev_op = call.op]
    /\ UNCHANGED unit_frame

SerNext ==
    \/ SerToJson
    \/ SerFromJson
    \/ SerGetNextTask

SpecSer == SerInit /\ [][SerNext]_vars

\* Runs of execute() and direct calls together.
SpecAll == (Init \/ UnitInit) /\ [][Next \/ UnitNext]_vars

\* ================================================================ claims

AllPresent(t, f) == \A p \in Range(t.files_expected) : f[p] = "content"
Halted == pc \in {"final", "report", "done"}

\* C1: verification soundness.  Whenever a step (the updater, a Complete
\* action, a direct call) turns a task with non-empty files_expected to done,
\* every expected path exists with content in the filesystem of that check;
\* so with an expected path missing or empty no step sets the task to done.
C1_VerificationSoundness ==
    [][ \A i \in DOMAIN tasks' :
          ( /\ tasks'[i].status = "done"
            /\ tasks'[i].files_expected # << >>
            /\ (i \in DOMAIN tasks => tasks[i].status # "done") )
          => AllPresent(tasks'[i], fs') ]_vars

\* A run has set a two-file task to done.
C1_Witness ==
    /\ pc = "loop_head"
    /\ Len(tasks) = 1
    /\ tasks[1].files_expected = <<"a.txt", "b.txt">>
    /\ tasks[1].status = "done"
    /\ tasks[1].iteration_completed = 2

\* retry_count is MaxRetries and the task is not pending: get_next_task
\* passes over it.
Spent(t) == t.retry_count = MaxRetries /\ t.status # "pending"
Exhausted(t) == t.retry_count = MaxRetries /\ t.status = "failed"

\* This step is a get_next_task() that returns task i.
Returned(i) ==
    \/ pc = "loop_head" /\ pc' = "deciding" /\ current_task' = i
    \/ call'.op = "get_next_task" /\ call'.n = call.n + 1 /\ call'.task = i

\* C2: retry bound.  In every step retry_count does not decrease and stays
\* at most MaxRetries; a task that has failed with retry_count = MaxRetries is
\* not returned by get_next_task in that step nor, its retry_count staying at
\* MaxRetries and its status never going back to pending, in any later one.
C2_RetryBound ==
    [][ \A i \in DOMAIN tasks \cap DOMAIN tasks' :
          /\ tasks'[i].retry_count >= tasks[i].retry_count
          /\ tasks'[i].retry_count <= MaxRetries
          /\ Exhausted(tasks[i]) => Spent(tasks[i])
          /\ Spent(tasks[i]) => Spent(tasks'[i]) /\ ~Returned(i) ]_vars

\* get_next_task has been called on a plan whose first task had failed with
\* all retries used, and has returned the second.
C2_Witness ==
    /\ call.op = "get_next_task"
    /\ call.task = 2
    /\ Exhausted(tasks[1])

\* C3: circuit breaker halting.  When MaxConsecutiveErrors iterations in a
\* row have each ended in a tool failure or a verification failure the loop
\* has halted, and once it has halted no Decider call and no tool execution
\* follows, whatever max_iterations is.
C3_CircuitBreakerHalts ==
    [][ /\ fail_streak' = MaxConsecutiveErrors => Halted'
        /\ Halted => /\ Halted'
                     /\ decider_calls' = decider_calls
                     /\ tool_calls' = tool_calls ]_vars

\* A run of more than MaxConsecutiveErrors allowed iterations has ended after
\* that many failed ones in a row, with iterations and a pending task left.
C3_Witness ==
    /\ pc = "done"
    /\ fail_streak = MaxConsecutiveErrors
    /\ iteration < max_iterations
    /\ \E i \in DOMAIN tasks : tasks[i].status = "pending"

StoppedKinds ==
    { "Stopped after n consecutive validation failures",
      "Stopped after n consecutive errors",
      "Stopped after n consecutive verification failures" }

\* C4: circuit breaker outcome.  Whenever consecutive_errors has reached
\* MaxConsecutiveErrors the loop has halted, the current task is failed with
\* a "Stopped after N consecutive ..." error, N = MaxConsecutiveErrors, and
\* the report, once made, has success = false; and a run in which every
\* iteration is a tool call that fails makes at most MaxConsecutiveErrors
\* tool calls.
C4_CircuitBreakerOutcome ==
    /\ consecutive_errors <= MaxConsecutiveErrors
    /\ consecutive_errors = MaxConsecutiveErrors =>
          /\ Halted
          /\ tasks[current_task].status = "failed"
          /\ tasks[current_task].error.kind \in StoppedKinds
          /\ tasks[current_task].error.n = MaxConsecutiveErrors
          /\ pc = "done" => report.kind = "normal" /\ ~report.success
    /\ ( /\ decider_calls = tool_calls
         /\ \A k \in DOMAIN tool_results : ~tool_results[k].success )
       => tool_calls <= MaxConsecutiveErrors

\* The breaker has tripped on an Error action, after failures of the other
\* kinds, and the report is made.
C4_Witness ==
    /\ pc = "done"
    /\ consecutive_errors = MaxConsecutiveErrors
    /\ tasks[current_task].error.kind = "Stopped after n consecutive errors"
    /\ tool_results # << >>
    /\ action.type = "error"
    /\ ~report.success

\* The tasks get_next_task may return: pending, or failed with retries left.
Actionable(ts) ==
    { i \in DOMAIN ts :
        \/ ts[i].status = "pending"
        \/ ts[i].status = "failed" /\ ts[i].retry_count < MaxRetries }
Least(S) == CHOOSE i \in S : \A j \in S : i <= j

\* C5: get_next_task returns the first task in plan order that is pending or
\* failed with retry_count < MaxRetries, adds exactly 1 to the retry_count of
\* a returned failed task and changes nothing else; it returns None, and
\* changes nothing, exactly when there is no such task.
C5_GetNextTask ==
    [][ (call'.op = "get_next_task" /\ call'.n = call.n + 1) =>
          IF Actionable(tasks) = {}
          THEN call'.task = 0 /\ tasks' = tasks
          ELSE LET j == Least(Actionable(tasks)) IN
               /\ call'.task = j
               /\ tasks' = [tasks EXCEPT ![j].retry_count =
                              IF tasks[j].status = "failed" THEN @ + 1 ELSE @] ]_vars

\* The plan [done, failed with retry_count 0] has given its second task, with
\* retry_count 1.
C5_Witness ==
    /\ call.op = "get_next_task"
    /\ call.n = 1
    /\ call.task = 2
    /\ tasks[1].status = "done"
    /\ tasks[2].status = "failed"
    /\ tasks[2].retry_count = 1

\* This step is a direct call of op.
Called(op) == call'.op = op /\ call'.n = call.n + 1

Present(paths, f) == { p \in paths : f[p] = "content" }
NoRepeat(seq) == Cardinality(Range(seq)) = Len(seq)

\* The decision table of the updater for a task that expects files.
ExpectedTable(t, t2, iter, f) ==
    LET fe == t.files_expected
        verified == Present(Range(fe), f)
    IN  IF verified = Range(fe)
        THEN t2.status = "done" /\ t2.iteration_completed = iter
        ELSE IF verified # {}
        THEN /\ t2.status = "failed"
             /\ t2.error.kind = "Only n/m files verified"
             /\ t2.error.n = Cardinality(verified)
             /\ t2.error.m = Len(fe)
        ELSE /\ t2.status = "failed"
             /\ t2.error.kind = "No expected files found on filesystem"

\* C6: updater decision table, files_expected non-empty.  On a successful
\* ToolResult the updater sets the task to done, recording
\* iteration_completed, when every expected path is verified; to failed with
\* "Only N/M files verified" when some but not all are; to failed with "No
\* expected files found" when none is.
C6_UpdaterExpectedTable ==
    [][ ( /\ Called("update_task_state")
          /\ call'.result.success
          /\ tasks[1].files_expected # << >> )
        => ExpectedTable(tasks[1], tasks'[1], call'.iter, fs) ]_vars

\* C6 with files_expected naming no path twice: there the table is the code's.
C6_TableWithoutRepeats ==
    [][ ( /\ Called("update_task_state")
          /\ call'.result.success
          /\ tasks[1].files_expected # << >>
          /\ NoRepeat(tasks[1].files_expected) )
        => ExpectedTable(tasks[1], tasks'[1], call'.iter, fs) ]_vars

\* The paths a result claims: files_created, else component_file, else
\* page_path.
ClaimedByResult(result) ==
    IF "files_created" \in DOMAIN result.data THEN result.data.files_created
    ELSE IF "component_file" \in DOMAIN result.data
    THEN <<result.data.component_file>>
    ELSE IF "page_path" \in DOMAIN result.data THEN <<result.data.page_path>>
    ELSE << >>

\* C7: updater decision table, files_expected empty.  On a successful
\* ToolResult that claims no path the task becomes done; on one that claims
\* paths it becomes done only when every claimed path exists with content
\* (and does so when no path is claimed twice), otherwise failed with "Tool
\* claimed files but only K/N verified".
C7_UpdaterClaimedTable ==
    [][ ( /\ Called("update_task_state")
          /\ call'.result.success
          /\ tasks[1].files_expected = << >> )
        => LET claimed == ClaimedByResult(call'.result)
               present == Present(Range(claimed), fs)
               t2 == tasks'[1]
           IN  IF claimed = << >>
               THEN t2.status = "done"
               ELSE /\ t2.status \in {"done", "failed"}
                    /\ t2.status = "done" => present = Range(claimed)
                    /\ (present = Range(claimed) /\ NoRepeat(claimed))
                          => t2.status = "done"
                    /\ present # Range(claimed) =>
                          /\ t2.status = "failed"
                          /\ t2.error.kind =
                                "Tool claimed files but only n/m verified"
                          /\ t2.error.n = Cardinality(present)
                          /\ t2.error.m = Len(claimed) ]_vars

\* The tool claimed files_created = [b.txt] beside a component_file a.txt;
\* b.txt is not there, a.txt is: failed, 0/1.
C7_Witness ==
    /\ call.op = "update_task_state"
    /\ call.n = 1
    /\ call.result.success
    /\ DOMAIN call.result.data = {"files_created", "component_file"}
    /\ tasks[1].files_expected = << >>
    /\ fs["a.txt"] = "content"
    /\ fs["b.txt"] = "missing"
    /\ tasks[1].status = "failed"
    /\ tasks[1].error.m = 1

\* C8: updater on tool failure.  On a ToolResult with success = false the
\* updater sets status = failed and error = result.error and leaves
\* files_created, files_verified, retry_count and iteration_completed (and
\* every other task) as they were.
C8_UpdaterOnFailure ==
    [][ (Called("update_task_state") /\ ~call'.result.success)
        => /\ tasks'[1].status = "failed"
           /\ tasks'[1].error = call'.result.error
           /\ tasks'[1].files_created = tasks[1].files_created
           /\ tasks'[1].files_verified = tasks[1].files_verified
           /\ tasks'[1].retry_count = tasks[1].retry_count
           /\ tasks'[1].iteration_completed = tasks[1].iteration_completed
           /\ \A i \in DOMAIN tasks \ {1} : tasks'[i] = tasks[i] ]_vars

\* The updater got a failed result for a pending task whose expected file is
\* there: failed, and files_verified still empty.
C8_Witness ==
    /\ call.op = "update_task_state"
    /\ call.n = 1
    /\ ~call.result.success
    /\ tasks[1].files_expected = <<"a.txt">>
    /\ fs["a.txt"] = "content"
    /\ tasks[1].status = "failed"
    /\ tasks[1].error.kind = "Tool not found"
    /\ tasks[1].files_verified = << >>

\* verify_completion is true of t on f.
Verifies(t, f) ==
    IF t.files_expected = << >> THEN t.status = "done" ELSE AllPresent(t, f)

\* C9: is_complete returns true exactly when every task is done and
\* verify_completion holds of it on the filesystem as it is at the call.
C9_IsComplete ==
    [][ Called("is_complete")
        => ( call'.ok <=> \A i \in DOMAIN tasks :
                             tasks[i].status = "done" /\ Verifies(tasks[i], fs) ) ]_vars

\* is_complete was false of a plan of done tasks, the first with its file
\* verified earlier and empty now.
C9_Witness ==
    /\ call.op = "is_complete"
    /\ call.n = 1
    /\ ~call.ok
    /\ \A i \in DOMAIN tasks : tasks[i].status = "done"
    /\ tasks[1].files_expected = <<"a.txt">>
    /\ tasks[1].files_verified = <<"a.txt">>
    /\ fs["a.txt"] = "empty"

\* C10: verify_all_tasks re-verifies every done task and demotes to failed
\* each one that does not verify; afterwards every task still done that
\* expects files has them all present with content, and the status of every
\* task that was not done is unchanged.
C10_VerifyAllTasks ==
    [][ Called("verify_all_tasks")
        => /\ DOMAIN call'.ver =
                 { tasks[i].id : i \in { j \in DOMAIN tasks :
                                           tasks[j].status = "done" } }
           /\ \A i \in DOMAIN tasks :
                 IF tasks[i].status = "done"
                 THEN /\ call'.ver[tasks[i].id] = Verifies(tasks[i], fs)
                      /\ tasks'[i].status =
                            IF Verifies(tasks[i], fs) THEN "done" ELSE "failed"
                 ELSE tasks'[i].status = tasks[i].status
           /\ \A i \in DOMAIN tasks' :
                 (tasks'[i].status = "done" /\ tasks'[i].files_expected # << >>)
                    => AllPresent(tasks'[i], fs') ]_vars

\* verify_all_tasks has demoted the first task and kept the second done.
C10_Witness ==
    /\ call.op = "verify_all_tasks"
    /\ call.n = 1
    /\ Len(tasks) = 2
    /\ DOMAIN call.ver = {1, 2}
    /\ ~call.ver[1] /\ tasks[1].status = "failed"
    /\ tasks[1].files_expected = <<"a.txt", "b.txt">>
    /\ call.ver[2] /\ tasks[2].status = "done"
    /\ tasks[2].files_expected = <<"a.txt">>

\* This step is a second verify_all_tasks right after a first (the
\* filesystem does not change between direct calls).
VerifiedAgain == Called("verify_all_tasks") /\ call.op = "verify_all_tasks"

StatusesOf(ts) == [i \in DOMAIN ts |-> ts[i].status]

\* C11 as stated: idempotent re-verification.  Two calls of
\* verify_all_tasks in a row with no filesystem change between them return
\* the same id-to-bool map, and the statuses after the second are those
\* after the first.
C11_SameMapTwice ==
    [][ VerifiedAgain => /\ call'.ver = call.ver
                         /\ StatusesOf(tasks') = StatusesOf(tasks) ]_vars

\* C11 amended: the statuses after the second call are those after the
\* first, and the second map has an entry, true, for exactly the tasks the
\* first call left done; the tasks the first call demoted have none.
C11_ReverifyAfterDemotion ==
    [][ VerifiedAgain =>
          /\ StatusesOf(tasks') = StatusesOf(tasks)
          /\ DOMAIN call'.ver =
                { tasks[i].id : i \in { j \in DOMAIN tasks :
                                          tasks[j].status = "done" } }
          /\ \A id \in DOMAIN call'.ver : call'.ver[id]
          /\ \A id \in DOMAIN call.ver :
                ~call.ver[id] => id \notin DOMAIN call'.ver ]_vars

\* Two calls in a row were made; the first demoted task 1 (one of its two
\* files is missing), so the second map has no entry for it.
C11_Witness ==
    /\ call.op = "verify_all_tasks" /\ call.prev_op = "verify_all_tasks"
    /\ call.n = 2
    /\ Len(tasks) = 2
    /\ tasks[1].status = "failed"
    /\ tasks[1].files_expected = <<"a.txt", "b.txt">>
    /\ tasks[1].files_verified = <<"a.txt">>
    /\ tasks[2].status = "done"
    /\ DOMAIN call.ver = {2}

\* execute() has returned the report built after the final verification.
Reported == pc = "done" /\ report.kind = "normal"

\* C12: run success is sound.  The report's success is true only if every
\* task of the plan is done and every expected file of every task exists
\* with content; then progress.done = progress.total.
C12_RunSuccessSound ==
    (Reported /\ report.success) =>
        /\ \A i \in DOMAIN tasks :
              /\ tasks[i].status = "done"
              /\ AllPresent(tasks[i], fs)
        /\ report.task_plan.tasks = tasks
        /\ get_progress(report.task_plan.tasks)["done"] =
              get_progress(report.task_plan.tasks)["total"]

\* A run of a two-task plan, the second expecting a file, has reported
\* success.
C12_Witness ==
    /\ Reported /\ report.success
    /\ Len(tasks) = 2
    /\ tasks[2].files_expected = <<"a.txt">>
    /\ fs["a.txt"] = "content"

\* This step hands the loop the Decider's answer.
Decided == decider_calls' = decider_calls + 1

\* C13: on receiving a Clarify or an Error action the loop appends the
\* action's message to the error list and terminates the run at once: no
\* further task selection, Decider call or tool execution.
C13_ClarifyOrErrorTerminates ==
    [][ (Decided /\ action'.type \in {"clarify", "error"})
        => /\ Len(errors') = Len(errors) + 1
           /\ Halted'
           /\ tool_calls' = tool_calls ]_vars

\* An ERROR action, whatever its message.
IsErrorAction(a) ==
    a.type = "error" /\ a.tool_name = NoneStr /\ a.parameters = NoneStr

\* The object of a response lacks "type" or has one that is no ActionType.
BadType(d) ==
    d.tag = "dict" /\ ( "type" \notin DOMAIN d.fields
                        \/ d.fields["type"] \notin ActionTypes )

\* C14: the Decider's output is always degraded to a well-formed Action.  A
\* transport failure, malformed JSON and an object with a missing or unknown
\* type each yield an Error action; of an array element 0 is taken; the
\* action handed to the loop always has a type in {tool_use, complete,
\* clarify, error}.
C14_DeciderWellFormed ==
    [][ Called("decide_action_for_task") =>
          LET r == call'.response
              c == r.content
          IN  /\ action'.type \in ActionTypes
              /\ r.kind = "api_error" => IsErrorAction(action')
              /\ (r.kind = "content" /\ c.tag = "invalid")
                    => IsErrorAction(action')
              /\ (r.kind = "content" /\ BadType(c)) => IsErrorAction(action')
              /\ (r.kind = "content" /\ c.tag = "list" /\ c.items # << >>)
                    => /\ BadType(c.items[1]) => IsErrorAction(action')
                       /\ c.items[1].tag = "dict" =>
                             action' = decide_action_for_task(
                                 [kind |-> "content", content |-> c.items[1]])
        ]_vars

\* C14 without the unknown type: a transport failure, malformed JSON, a
\* JSON value that is neither object nor non-empty array, and an object
\* without "type" yield an Error action; of an array element 0 is taken.
C14_DegradesExceptUnknownType ==
    [][ Called("decide_action_for_task") =>
          LET r == call'.response
              c == r.content
          IN  /\ action'.type \in TypeValues
              /\ r.kind = "api_error" => IsErrorAction(action')
              /\ (r.kind = "content" /\ c.tag \in {"invalid", "scalar"})
                    => IsErrorAction(action')
              /\ (r.kind = "content" /\ c.tag = "dict"
                  /\ "type" \notin DOMAIN c.fields) => IsErrorAction(action')
              /\ (r.kind = "content" /\ c.tag = "list" /\ c.items = << >>)
                    => IsErrorAction(action')
              /\ (r.kind = "content" /\ c.tag = "list" /\ c.items # << >>)
                    => IF c.items[1].tag = "dict"
                       THEN action' = decide_action_for_task(
                                 [kind |-> "content", content |-> c.items[1]])
                       ELSE IsErrorAction(action')
        ]_vars

\* C15: execute_tool never throws.  For every name and every parameters
\* value the Decider can supply it returns a ToolResult, with success false
\* and an error in each failure case: an unknown name, parameters that fail
\* validation or are no key/value object, a tool function that raises.
C15_ExecuteToolNeverThrows ==
    [][ Called("execute_tool") =>
          /\ ~call'.raised
          /\ ( \/ call'.result.tool_name \notin RegisteredTools
               \/ call'.args.parameters \notin {"{}", "dict"}
               \/ call'.args.outcome = "raises" )
             => (~call'.result.success /\ call'.result.error # NoError) ]_vars

\* C15 for parameters that are a key/value object: there execute_tool
\* returns, and with a failed result for an unknown name and for a
\* validation or a tool function that raises.
C15_ReturnsOnObjects ==
    [][ (Called("execute_tool") /\ call'.args.parameters \in {"{}", "dict"})
        => /\ ~call'.raised
           /\ ( \/ call'.result.tool_name \notin RegisteredTools
                \/ call'.args.outcome = "raises" )
              => (~call'.result.success /\ call'.result.error # NoError) ]_vars

\* The planning call failed, or its response was not JSON or JSON without
\* a well-formed task list.
PlanningFailed == plan_response \in {"api_error", "not_json", "no_tasks"}

\* C16: planning never aborts the run.  If the planning call fails or its
\* response is malformed, planning yields a plan of exactly one fallback
\* task, pending, and the run proceeds into the execution loop.
C16_PlanningNeverAborts ==
    [][ (pc = "plan" /\ pc' # "plan") =>
          /\ pc' = "loop_head"
          /\ PlanningFailed' => /\ Len(tasks') = 1
                                /\ tasks'[1].status = "pending"
                                /\ tasks'[1].files_expected = << >> ]_vars

\* C16 for a response that is not JSON: one pending fallback task, and the
\* loop is entered.
C16_NotJsonFallsBack ==
    [][ (pc = "plan" /\ plan_response' = "not_json") =>
          /\ pc' = "loop_head"
          /\ Len(tasks') = 1
          /\ tasks'[1].status = "pending"
          /\ tasks'[1].files_expected = << >> ]_vars

\* C17: every run, however it ends, returns a report normally with the
\* fields success, response, iterations, task_plan, files_created and
\* errors; whenever success is false the errors list is populated and the
\* failing tasks carry an error.
C17_ReportFields ==
    pc = "done" =>
        /\ {"success", "response", "iterations", "task_plan", "files_created",
            "errors"} \subseteq DOMAIN report
        /\ ~report.success =>
              /\ report.errors # << >>
              /\ \A i \in DOMAIN report.task_plan.tasks :
                    report.task_plan.tasks[i].status = "failed"
                       => report.task_plan.tasks[i].error # NoError

\* What does hold of the report built after the final verification: it has
\* success, response, iterations, task_plan, files_created and
\* actions_taken, and no errors.
C17_NormalReportFields ==
    Reported => DOMAIN report = {"kind", "success", "response", "iterations",
                                 "task_plan", "files_created", "actions_taken"}

\* C18: iteration budget.  context.iteration only ever increases, by 1 per
\* loop pass, and never exceeds max_iterations; so the Decider calls and the
\* tool executions of a run are each at most max_iterations, and so is the
\* reported iterations.
C18_IterationBudget ==
    [][ /\ iteration' \in {iteration, iteration + 1}
        /\ (pc = "loop_head" /\ pc' = "deciding") => iteration' = iteration + 1
        /\ Decided => decider_calls' <= iteration'
        /\ iteration' <= max_iterations
        /\ decider_calls' <= max_iterations
        /\ tool_calls' <= max_iterations
        /\ pc' = "done" => report'.iterations <= max_iterations ]_vars

\* A run has used its whole budget: as many Decider calls and tool
\* executions as max_iterations allows, and the plan is not complete.
C18_Witness ==
    /\ Reported /\ ~report.success
    /\ max_iterations = MaxIter
    /\ report.iterations = max_iterations
    /\ decider_calls = max_iterations
    /\ tool_calls = max_iterations

\* C19: termination.  Every run leaves the loop through one of: no
\* actionable task, plan complete, iteration >= max_iterations, circuit
\* breaker, Clarify/Error action; it then runs the final verification and
\* produces the report.  For a run that has entered the loop and returned:
\* what it returned is the report built after the final verification.
C19_LeavesLoopToReport ==
    (pc = "done" /\ iteration > 0) =>
        report.kind = "normal"

\* This step is the selection of a task by the loop.
Selected == pc = "loop_head" /\ pc' = "deciding"

\* C20: plan-order execution.  A task at position j is selected in an
\* iteration only if no task at an earlier position is pending or failed
\* with retries left at that moment; so a failed task that still has retries
\* is selected again, at its own position, before any later task is
\* attempted for the first time.  The positions never change.
C20_PlanOrder ==
    [][ /\ Selected =>
              /\ current_task' \in Actionable(tasks)
              /\ \A i \in 1..(current_task' - 1) : i \notin Actionable(tasks)
              /\ tasks[current_task'].status = "failed" =>
                    tasks'[current_task'].retry_count =
                       tasks[current_task'].retry_count + 1
        /\ pc # "plan" => /\ Len(tasks') = Len(tasks)
                          /\ \A i \in DOMAIN tasks : tasks'[i].id = tasks[i].id
      ]_vars

\* The first task of two has failed and is selected again while the second
\* has not been attempted yet.
C20_Witness ==
    /\ pc = "deciding"
    /\ Len(tasks) = 2
    /\ current_task = 1
    /\ tasks[1].status = "in_progress" /\ tasks[1].retry_count = 1
    /\ tasks[2].status = "pending" /\ tasks[2].iteration_started = NoneInt

\* t2 is t but for the fields named in S.
SameBut(t, t2, S) == \A k \in DOMAIN t \ S : t2[k] = t[k]

\* What seq2 has after seq, when seq is its beginning.
Appended(seq, seq2) == SubSeq(seq2, Len(seq) + 1, Len(seq2))

\* C21: verify_files_exist returns a map with one entry per path of
\* files_expected, true exactly when the path is a file with content (a
\* missing path and a zero-byte file both map to false); its only effect on
\* the task is to append the confirmed paths to files_verified.
C21_VerifyFilesExist ==
    [][ Called("verify_files_exist") =>
          LET i == call'.task
              t == tasks[i]
              t2 == tasks'[i]
          IN  /\ DOMAIN call'.ver = Range(t.files_expected)
              /\ \A p \in DOMAIN call'.ver :
                    call'.ver[p] <=> fs[p] \notin {"missing", "empty"}
              /\ SameBut(t, t2, {"files_verified"})
              /\ Len(t2.files_verified) >= Len(t.files_verified)
              /\ SubSeq(t2.files_verified, 1, Len(t.files_verified))
                    = t.files_verified
              /\ Range(Appended(t.files_verified, t2.files_verified))
                    = Present(Range(t.files_expected), fs)
              /\ \A j \in DOMAIN tasks \ {i} : tasks'[j] = tasks[j] ]_vars

\* verify_files_exist on a done task that expects a.txt (there, verified
\* before) and b.txt (zero bytes): a.txt true and appended again, b.txt
\* false.
C21_Witness ==
    /\ call.op = "verify_files_exist" /\ call.n = 1 /\ call.task = 1
    /\ tasks[1].files_expected = <<"a.txt", "b.txt">>
    /\ fs["a.txt"] = "content" /\ fs["b.txt"] = "empty"
    /\ call.ver["a.txt"] /\ ~call.ver["b.txt"]
    /\ tasks[1].files_verified = <<"a.txt", "b.txt", "a.txt">>
    /\ tasks[1].status = "done" /\ tasks[1].error = NoError

\* C22: verify_completion returns (status = done) when files_expected is
\* empty; otherwise it returns true exactly when every expected path is a
\* file with content, and returns false after setting error to the list of
\* the missing paths; it never changes the task's status.
C22_VerifyCompletion ==
    [][ Called("verify_completion") =>
          LET i == call'.task
              t == tasks[i]
              t2 == tasks'[i]
              gone == Range(t.files_expected) \ Present(Range(t.files_expected), fs)
          IN  /\ t2.status = t.status
              /\ t.files_expected = << >> =>
                    /\ call'.ok <=> t.status = "done"
                    /\ t2 = t
              /\ t.files_expected # << >> =>
                    /\ call'.ok <=> gone = {}
                    /\ call'.ok => t2.error = t.error
                    /\ ~call'.ok =>
                          /\ t2.error.kind = "Missing files"
                          /\ Range(t2.error.files) = gone
                          /\ NoRepeat(t2.error.files) ]_vars

\* verify_completion on a done task whose b.txt is gone: false, status still
\* done, error naming b.txt alone.
C22_Witness ==
    /\ call.op = "verify_completion" /\ call.n = 1 /\ ~call.ok
    /\ tasks[call.task].status = "done"
    /\ tasks[call.task].files_expected = <<"a.txt", "b.txt">>
    /\ fs["a.txt"] = "content" /\ fs["b.txt"] = "missing"
    /\ tasks[call.task].error = Err("Missing files", 0, 0, <<"b.txt">>)

\* C23: progress accounting.  The five status counts of get_progress add up
\* to total, which is the number of tasks; the completion percentage is
\* done / total * 100, between 0 and 100, and it is 100 exactly when every
\* task is done (a plan without tasks included).
C23_ProgressAccounting ==
    LET progress == get_progress(tasks)
        pct == get_completion_percentage(tasks)
        done == Cardinality({ i \in DOMAIN tasks : tasks[i].status = "done" })
    IN  /\ progress["done"] + progress["in_progress"] + progress["pending"]
              + progress["failed"] + progress["skipped"] = progress["total"]
        /\ progress["total"] = Len(tasks)
        /\ pct.den > 0
        /\ tasks # << >> => pct.num * Len(tasks) = done * 100 * pct.den
        /\ 0 <= pct.num /\ pct.num <= 100 * pct.den
        /\ pct.num = 100 * pct.den <=> \A i \in DOMAIN tasks : tasks[i].status = "done"

\* A run's plan of two tasks, the first done and the second failed with its
\* retries used up: one done, one failed, total two, half complete.
C23_Witness ==
    /\ pc = "report" /\ Len(tasks) = 2
    /\ tasks[1].status = "done" /\ tasks[2].status = "failed"
    /\ get_progress(tasks)["done"] = 1 /\ get_progress(tasks)["failed"] = 1
    /\ get_progress(tasks)["total"] = 2
    /\ get_completion_percentage(tasks) = [num |-> 100, den |-> 2]

\* A run whose planner returned no task: the percentage is 100.
C23_EmptyPlan ==
    /\ pc = "report" /\ plan_response = "tasks" /\ tasks = << >>
    /\ get_completion_percentage(tasks) = [num |-> 100, den |-> 1]

\* C24 as stated: from_json(to_json(plan)) has the same user_request,
\* created_at and project_dir and the same tasks in order, each with the same
\* value of every field, max_retries included, so that get_next_task returns
\* the same task and leaves the same plan on both.
C24_RoundTrip ==
    [][ Called("from_json") =>
          /\ call'.plan = call.plan
          /\ tasks' = tasks
          /\ get_next_task(tasks') = get_next_task(tasks) ]_vars

\* What does hold: the plan read back differs from the one written in no
\* field but max_retries, which is the default on every task read back.
C24_RoundTripButMaxRetries ==
    [][ Called("from_json") =>
          /\ call'.plan = call.plan
          /\ Len(tasks') = Len(tasks)
          /\ \A i \in DOMAIN tasks :
                /\ SameBut(tasks[i], tasks'[i], {"max_retries"})
                /\ tasks'[i].max_retries = MaxRetries ]_vars

\* A failed task with three retries used of five allowed is read back with
\* three allowed: get_next_task returned it before and returns none now.
C24_RetryLost ==
    /\ call.op = "from_json" /\ Len(tasks) = 1
    /\ tasks[1].status = "failed" /\ tasks[1].retry_count = MaxRetries
    /\ tasks[1].max_retries = MaxRetries
    /\ call.json.text.tasks[1].retry_count = MaxRetries
    /\ "max_retries" \notin DOMAIN call.json.text.tasks[1]
    /\ get_next_task(tasks).idx = 0

\* The step hands control to the other run.
Switched == suspended'.run # suspended.run

Completing == pc = "deciding" /\ Decided /\ action'.type = "complete"

\* C26: on a Complete action the loop verifies the current task with
\* verify_completion.  Verified: the task becomes done with
\* iteration_completed recorded, and consecutive_errors is reset to 0.  Not
\* verified: the task becomes failed, one error is appended,
\* consecutive_errors goes up by 1 and the breaker is evaluated (the loop is
\* left exactly when the limit is reached).  No tool is executed either way.
C26_CompleteAction ==
    [][ Completing =>
          LET t == tasks[current_task]
              t2 == tasks'[current_task]
          IN  /\ Verifies(t, fs) =>
                    /\ t2.status = "done"
                    /\ t2.iteration_completed = iteration
                    /\ consecutive_errors' = 0
                    /\ errors' = errors
                    /\ pc' = "loop_head"
              /\ ~Verifies(t, fs) =>
                    /\ t2.status = "failed"
                    /\ Len(errors') = Len(errors) + 1
                    /\ SubSeq(errors', 1, Len(errors)) = errors
                    /\ consecutive_errors' = consecutive_errors + 1
                    /\ pc' = IF consecutive_errors' >= MaxConsecutiveErrors
                             THEN "final" ELSE "loop_head"
              /\ tool_calls' = tool_calls
              /\ tool_results' = tool_results
              /\ \A j \in DOMAIN tasks \ {current_task} : tasks'[j] = tasks[j] ]_vars

\* A Complete action verified after an earlier failure: the task is done,
\* the counter is back at 0 with the earlier error still listed, and no tool
\* has run.
C26_Witness ==
    /\ action.type = "complete" /\ pc = "loop_head"
    /\ tasks[current_task].status = "done"
    /\ tasks[current_task].files_expected # << >>
    /\ tasks[current_task].iteration_completed = iteration
    /\ consecutive_errors = 0 /\ Len(errors) = 1
    /\ tool_calls = 0

\* The step is an iteration that has run a tool and has its result.
ToolRan == tool_calls' = tool_calls + 1 /\ pc' # "done"
LastResult == tool_results'[Len(tool_results')]

\* The iteration of this step leaves the current task done.
VerifiedDone == Decided /\ pc' # "done" /\ tasks'[current_task].status = "done"

\* The iteration of this step ends in an Error action, a failed Complete, a
\* tool failure or a verification failure.
Failure ==
    /\ Decided /\ pc' # "done"
    /\ \/ action'.type = "error"
       \/ action'.type = "complete" /\ ~Verifies(tasks[current_task], fs)
       \/ ToolRan /\ ~LastResult.success
       \/ ToolRan /\ LastResult.success /\ tasks'[current_task].status = "failed"

\* C27: consecutive_errors is 0 after every iteration that leaves the
\* current task verified done and 1 more than before after every iteration
\* that ends in a tool failure, a verification failure, a failed Complete or
\* an Error action; nothing else changes it, so it is the number of failures
\* since the most recent verified success; every increment appends exactly
\* one entry to errors.
C27_ConsecutiveErrors ==
    [][ /\ VerifiedDone => consecutive_errors' = 0
        /\ Failure => consecutive_errors' = consecutive_errors + 1
        /\ consecutive_errors' # consecutive_errors => VerifiedDone \/ Failure
        /\ consecutive_errors' > consecutive_errors =>
              /\ Len(errors') = Len(errors) + 1
              /\ SubSeq(errors', 1, Len(errors)) = errors ]_vars

\* One failure, then a verified success, then two failures: three errors
\* listed, the counter at 2.
C27_Witness ==
    /\ pc = "loop_head" /\ consecutive_errors = 2 /\ Len(errors) = 3
    /\ \E i \in DOMAIN tasks : tasks[i].status = "done"

\* C28: sole retry-admission point.  retry_count changes only when
\* get_next_task returns the task while it is failed, and then by exactly 1;
\* the updater, verify_files_exist, verify_completion, is_complete,
\* verify_all_tasks and every branch of the loop leave it as it is.
C28_SoleRetryAdmission ==
    [][ \A i \in DOMAIN tasks \cap DOMAIN tasks' :
          IF Returned(i) /\ tasks[i].status = "failed"
          THEN tasks'[i].retry_count = tasks[i].retry_count + 1
          ELSE tasks'[i].retry_count = tasks[i].retry_count ]_vars

\* A run whose first task has failed in three iterations: it was returned
\* twice as a failed task, and the three failures themselves counted nothing.
C28_Witness ==
    /\ pc = "loop_head" /\ iteration = 3 /\ Len(errors) = 3
    /\ tasks[1].status = "failed" /\ tasks[1].retry_count = 2
    /\ tasks[1].iteration_started = 3

\* C29 as stated: the iterations value of the run report is the number of
\* Decide+Execute cycles of the run, that is, of the action requests the
\* loop has made to the Decider.
C29_IterationsAreDeciderCalls ==
    pc = "done" => report.iterations = decider_calls

\* What does hold: the report counts the passes of the loop, each of which
\* made one request but for a last one that found no task to work on.
C29_IterationsWithinOne ==
    pc = "done" =>
        /\ report.iterations = iteration
        /\ report.iterations \in {decider_calls, decider_calls + 1}

\* The planner returned no task: the report says one iteration, and the
\* Decider was never asked.
C29_EmptyPlanOneIteration ==
    /\ pc = "done" /\ report.kind = "normal" /\ tasks = << >>
    /\ report.iterations = 1 /\ decider_calls = 0

InProgress(ts) == { i \in DOMAIN ts : ts[i].status = "in_progress" }

\* C30 as stated: at every point of a run, the report included, at most one
\* task is in_progress and it is the current task; a task selected in an
\* iteration is done or failed by the time the next task is selected.
C30_OneInProgress ==
    [][ /\ Cardinality(InProgress(tasks')) <= 1
        /\ InProgress(tasks') \subseteq {current_task'}
        /\ Selected /\ current_task # 0 =>
              tasks[current_task].status \in {"done", "failed"} ]_vars

\* A returned run with both its tasks in_progress: the Decider answered with
\* an Error action for the first and again for the second.
C30_TwoInProgress ==
    /\ pc = "done" /\ report.kind = "normal"
    /\ Len(tasks) = 2 /\ InProgress(tasks) = {1, 2}
    /\ Len(errors) = 2 /\ tool_calls = 0

\* The Decider has answered, in this step, with an action that is neither
\* "complete" nor "error" and has no tool name or no parameters to speak of.
ToolLess ==
    /\ pc = "deciding" /\ Decided
    /\ action'.type \notin {"complete", "error"}
    /\ action'.tool_name = NoneStr \/ ~Truthy(action'.parameters)

\* Task i is in_progress and is not the task the Decider is being asked
\* about: an earlier iteration has left it so.
LeftInProgress(i) ==
    /\ tasks[i].status = "in_progress"
    /\ ~(pc = "deciding" /\ current_task = i)

\* C31: an action that is neither Complete nor Error and lacks a tool name
\* or has empty or absent parameters executes no tool and records no
\* failure: consecutive_errors, errors and tool_results are unchanged and the
\* current task stays in_progress; a task left in_progress stays so and is
\* not selected again.
C31_ToolLessAction ==
    [][ /\ ToolLess =>
              /\ consecutive_errors' = consecutive_errors
              /\ errors' = errors
              /\ tool_results' = tool_results
              /\ tool_calls' = tool_calls
              /\ tasks'[current_task].status = "in_progress"
              /\ current_task' = current_task
        /\ \A i \in DOMAIN tasks :
              LeftInProgress(i) =>
                 /\ tasks'[i].status = "in_progress"
                 /\ ~(Selected /\ current_task' = i) ]_vars

\* A returned run without any error: its first task was answered with a
\* tool-less action and is still in_progress, its second task is done.
C31_Witness ==
    /\ pc = "done" /\ report.kind = "normal" /\ Len(tasks) = 2
    /\ tasks[1].status = "in_progress" /\ tasks[1].iteration_started = 1
    /\ tasks[2].status = "done"
    /\ errors = << >> /\ consecutive_errors = 0 /\ tool_calls = 1

\* C32: inside the loop a Complete action for a task without expected files
\* never marks it done: the task is in_progress when verify_completion is
\* called, the task becomes failed and consecutive_errors goes up by 1; such
\* a task becomes done only in a step that has run a tool with success.
C32_CompleteWithoutExpectedFiles ==
    [][ /\ Completing /\ tasks[current_task].files_expected = << >> =>
              /\ tasks[current_task].status = "in_progress"
              /\ tasks'[current_task].status = "failed"
              /\ consecutive_errors' = consecutive_errors + 1
        /\ \A i \in DOMAIN tasks \cap DOMAIN tasks' :
              /\ tasks[i].files_expected = << >>
              /\ tasks[i].status # "done" /\ tasks'[i].status = "done"
              => /\ i = current_task /\ ToolRan /\ LastResult.success
                 /\ action'.type \notin {"complete", "error"} ]_vars

\* A task without expected files answered with Complete in the first
\* iteration: failed, one error counted.
C32_Witness ==
    /\ pc = "loop_head" /\ action.type = "complete" /\ iteration = 1
    /\ tasks[current_task].files_expected = << >>
    /\ tasks[current_task].status = "failed"
    /\ consecutive_errors = 1 /\ Len(errors) = 1 /\ tool_calls = 0

\* C33 as stated: whenever a task is done its error field is null; a task
\* that failed an attempt and passes verification on a retry does not keep
\* the message of the failed attempt.
C33_DoneHasNoError ==
    \A i \in DOMAIN tasks : tasks[i].status = "done" => tasks[i].error = NoError

\* C33 amended: the step that turns a task done leaves its error field as it
\* was, so a task that failed an attempt and passes verification on a retry
\* keeps the message of the failed attempt, and a task done at its first
\* attempt has none.
C33_DoneKeepsError ==
    [][ \A i \in DOMAIN tasks \cap DOMAIN tasks' :
          tasks[i].status # "done" /\ tasks'[i].status = "done"
          => /\ tasks'[i].error = tasks[i].error
             /\ tasks[i].retry_count = 0 => tasks'[i].error = NoError ]_vars

\* A returned run whose task found none of its files at the first attempt
\* and all of them at the second: done, with the first attempt's message.
C33_Witness ==
    /\ pc = "done" /\ report.kind = "normal" /\ Len(tasks) = 1
    /\ tasks[1].status = "done" /\ tasks[1].retry_count = 1
    /\ tasks[1].iteration_completed = 2
    /\ tasks[1].error.kind = "No expected files found on filesystem"

\* C34 as stated: the files_created list of the run report names each
\* verified path at most once, whatever the retries and re-verifications,
\* and is the files_created list of the report's serialised task plan.
C34_FilesCreatedOnce ==
    Reported =>
        /\ NoRepeat(report.files_created)
        /\ report.files_created = report.task_plan.files_created

\* The plainest successful run, one task that expects a.txt and a tool that
\* writes it in the first iteration: the report lists a.txt three times and
\* its task plan five times.
C34_ThreeCopies ==
    /\ Reported /\ report.success /\ iteration = 1 /\ Len(tasks) = 1
    /\ tasks[1].files_expected = <<"a.txt">>
    /\ report.files_created = <<"a.txt", "a.txt", "a.txt">>
    /\ Len(report.task_plan.files_created) = 5

\* The updater has been called, in this step, with a successful result on a
\* task that expects files.
UpdatedOnSuccess ==
    /\ Called("update_task_state") /\ call'.result.success
    /\ tasks[1].files_expected # << >>

\* C35 as stated: the two completion checks agree.  For a task that expects
\* files, a path named twice included, and any filesystem, the updater
\* given a successful result sets done exactly when verify_completion on the
\* same task and filesystem returns true.
C35_ChecksAgree ==
    [][ UpdatedOnSuccess =>
          (tasks'[1].status = "done" <=> verify_completion(tasks[1], fs).ok) ]_vars

\* What does hold: they agree on every list that names no path twice.
C35_AgreeWithoutRepeats ==
    [][ UpdatedOnSuccess /\ NoRepeat(tasks[1].files_expected) =>
          (tasks'[1].status = "done" <=> verify_completion(tasks[1], fs).ok) ]_vars

\* The updater has left failed, with "Only 1/2 files verified", a task that
\* expects a.txt twice while a.txt is there, and which verify_completion
\* accepts.
C35_Disagreement ==
    /\ call.op = "update_task_state" /\ call.result.success
    /\ tasks[1].files_expected = <<"a.txt", "a.txt">> /\ fs["a.txt"] = "content"
    /\ tasks[1].status = "failed"
    /\ tasks[1].error = Err("Only n/m files verified", 1, 2, << >>)
    /\ verify_completion(tasks[1], fs).ok

\* The change of status a to b of task i in this step is one a run may make.
Transition(i, a, b) ==
    \/ a = b
    \/ a \in {"pending", "failed"} /\ b = "in_progress"
          /\ Selected /\ current_task' = i
    \/ a = "in_progress" /\ b \in {"done", "failed"}
          /\ pc = "deciding" /\ Decided /\ current_task = i
    \/ a = "done" /\ b = "failed" /\ pc = "final" /\ pc' = "report"

\* C36: in a run the status of a task changes only from pending or failed
\* to in_progress (on selection), from in_progress to done or failed (the
\* updater, the Complete path, the breaker) and from done to failed (the
\* final verify_all_tasks); a done task is never selected, no task returns
\* to pending or becomes skipped, and after planning the number of tasks and
\* their ids do not change.
C36_StatusTransitions ==
    [][ pc # "plan" =>
          /\ Len(tasks') = Len(tasks)
          /\ \A i \in DOMAIN tasks :
                /\ tasks'[i].id = tasks[i].id
                /\ Transition(i, tasks[i].status, tasks'[i].status)
                /\ tasks'[i].status # "skipped"
                /\ tasks'[i].status = "pending" => tasks[i].status = "pending"
          /\ Selected => tasks[current_task'].status \in {"pending", "failed"} ]_vars

\* A returned run that has seen every kind of change: its first task was
\* done in the first iteration and failed the final verification, its second
\* failed, was selected again and failed again.
C36_Witness ==
    /\ pc = "done" /\ report.kind = "normal" /\ Len(tasks) = 2
    /\ tasks[1].status = "failed" /\ tasks[1].iteration_completed = 1
    /\ tasks[1].error.kind = "Missing files"
    /\ tasks[2].status = "failed" /\ tasks[2].retry_count >= 1
    /\ tasks[1].id = 1 /\ tasks[2].id = 2

\* Planning has yielded a plan without tasks.
ZeroTasks == pc # "plan" /\ plan_response = "tasks" /\ tasks = << >>

\* C37: when planning yields a plan with no task, the run asks the Decider
\* for no action and executes no tool, is_complete() is true, and the report
\* has success = true and an empty files_created list.
C37_ZeroTaskPlan ==
    ZeroTasks =>
        /\ decider_calls = 0 /\ tool_calls = 0
        /\ tool_results = << >> /\ errors = << >>
        /\ is_complete(tasks, fs).ok
        /\ pc = "done" =>
              /\ report.kind = "normal"
              /\ report.success
              /\ report.files_created = << >>

\* The run on an empty plan has returned its report: success, no file, no
\* action taken.
C37_Witness ==
    /\ ZeroTasks /\ pc = "done"
    /\ report.success /\ report.files_created = << >>
    /\ report.actions_taken = << >>
    /\ report.response = "Successfully completed all"

====
